---- MODULE Spec2Model ----
(***************************************************************************)
(* Model of the classification-and-reconciliation pipeline of the bot      *)
(* performance analyzer: topic clustering and failure sampling             *)
(* (services/aiService.ts), recommendation merging, bucket assignment and  *)
(* the staged run analyzeWithBatching (unnamed/part_001).                  *)
(*                                                                         *)
(* Strings that the code normalises (trim, toLowerCase) are sequences of   *)
(* one-character strings, so that the normalisation is computed.  A field  *)
(* that is undefined in JavaScript is a field missing from the record.     *)
(* Row indices keep the code's 0-based numbering: row idx is rows[idx+1].  *)
(***************************************************************************)
EXTENDS Integers, Sequences, FiniteSets, TLC

VARIABLES
    pc,               \* position of the operation under way
    csvData,          \* the input rows (ConversationRow[])
    topN,             \* cap given to getFailureRows
    allClusters,      \* result of buildClusterSummaries
    failureEntry,     \* result of getFailureRows
    strategic,        \* mergeRecommendations: Stage-A list of one bucket
    detail,           \* mergeRecommendations: Stage-B list of one bucket
    merged,           \* mergeRecommendations: result
    pbArgs,           \* processBucket: arguments of the call
    pbResult,         \* processBucket: rows, recs and outcome after the call
    strategicParsed,  \* analyzeWithBatching: parsed Stage-A response
    detailParsed,     \* analyzeWithBatching: parsed Stage-B response
    topicToBucket,    \* analyzeWithBatching: topic key -> bucket
    topicToLabel,     \* analyzeWithBatching: topic key -> label
    categorizedRows,  \* analyzeWithBatching: the rows being stamped
    strategicBuckets, \* processed Stage-A lists, buckets 1..3
    detailBuckets,    \* processed Stage-B lists, buckets 1..3
    recommendations,  \* merged lists, buckets 1..3
    topicToIssueCategory, \* analyzeWithBatching: topic key -> issue category
    log,              \* the AnalysisLog of the run
    history,          \* localStorage entry bot_analysis_history
    clock,            \* the time new Date() reads
    criticalError,    \* the exception the outer catch holds and re-raises
    provider,         \* callAI: the provider the model option selects
    retries,          \* withRetry: retries left
    delayMs,          \* withRetry: delay before the next retry
    attempts,         \* withRetry: invocations of the operation so far
    waits,            \* withRetry: delays slept so far
    response,         \* what the provider answered to the latest attempt
    callResult        \* callAI: the text returned or the error raised

\* the state of one run of analyzeWithBatching beyond its row processing
runVars == <<topicToIssueCategory, log, history, clock, criticalError>>

\* the state of one callAI
callVars == <<provider, retries, delayMs, attempts, waits, response, callResult>>

vars == <<pc, csvData, topN, allClusters, failureEntry, strategic, detail,
          merged, pbArgs, pbResult, strategicParsed, detailParsed,
          topicToBucket, topicToLabel, categorizedRows, strategicBuckets,
          detailBuckets, recommendations, runVars, callVars>>

(***************************************************************************)
(* Bounds of the model.                                                    *)
(***************************************************************************)
MaxRows == 3        \* rows of a generated input collection
MaxTopN == 3        \* largest cap tried on getFailureRows
MaxRecs == 2        \* recommendations per list given to the merge or processBucket
MaxPipelineRows == 2    \* rows of an input collection of a staged run
MaxStrategicRecs == 1   \* recommendations in one Stage-A response
MaxDetailRecs == 2      \* recommendations in one Stage-B response

(***************************************************************************)
(* Strings.                                                                *)
(***************************************************************************)
UpperCase == <<"A","B","C","D","E","F","G","H","I","J","K","L","M",
               "N","O","P","Q","R","S","T","U","V","W","X","Y","Z">>
LowerCase == <<"a","b","c","d","e","f","g","h","i","j","k","l","m",
               "n","o","p","q","r","s","t","u","v","w","x","y","z">>

toLowerCaseChar(c) ==
    IF \E i \in 1..Len(UpperCase) : UpperCase[i] = c
    THEN LowerCase[CHOOSE i \in 1..Len(UpperCase) : UpperCase[i] = c]
    ELSE c

\* String.prototype.toLowerCase
toLowerCase(s) == [i \in 1..Len(s) |-> toLowerCaseChar(s[i])]

IsWhiteSpace(c) == c \in {" ", "\t", "\n", "\r"}

RECURSIVE TrimStart(_)
TrimStart(s) ==
    IF s # <<>> /\ IsWhiteSpace(Head(s)) THEN TrimStart(Tail(s)) ELSE s

RECURSIVE TrimEnd(_)
TrimEnd(s) ==
    IF s # <<>> /\ IsWhiteSpace(s[Len(s)])
    THEN TrimEnd(SubSeq(s, 1, Len(s) - 1))
    ELSE s

\* String.prototype.trim
trim(s) == TrimEnd(TrimStart(s))

\* (obj.field || ''): a missing (undefined) or empty field reads as ''
OrEmpty(obj, field) == IF field \in DOMAIN obj THEN obj[field] ELSE <<>>

\* The strings the code compares against.
S_unresolved == <<"u","n","r","e","s","o","l","v","e","d">>
S_resolution_attempted ==
    <<"r","e","s","o","l","u","t","i","o","n","_","a","t","t","e","m","p","t","e","d">>
S_partially_resolved ==
    <<"p","a","r","t","i","a","l","l","y","_","r","e","s","o","l","v","e","d">>
S_user_drop_off == <<"u","s","e","r","_","d","r","o","p","_","o","f","f">>
S_positive == <<"p","o","s","i","t","i","v","e">>
S_neutral == <<"n","e","u","t","r","a","l">>
S_negative == <<"n","e","g","a","t","i","v","e">>

(***************************************************************************)
(* buildClusterSummaries                                                   *)
(***************************************************************************)
\* const key = (row.TOPIC || '').trim().toLowerCase()
\* (variant: the key without toLowerCase)
TopicKey_NoLowerCase(row) == trim(OrEmpty(row, "TOPIC"))
TopicKey(row) == toLowerCase(trim(OrEmpty(row, "TOPIC")))

\* (r.RESOLUTION_STATUS || '').toLowerCase().trim()
StatusOf(row) == trim(toLowerCase(OrEmpty(row, "RESOLUTION_STATUS")))

\* (r.USER_SENTIMENT || '').toLowerCase().trim()
SentimentOf(row) == trim(toLowerCase(OrEmpty(row, "USER_SENTIMENT")))

\* position of key in the insertion-ordered groupMap, 0 when absent
GroupPosition(groupMap, key) ==
    IF \E p \in 1..Len(groupMap) : groupMap[p].key = key
    THEN CHOOSE p \in 1..Len(groupMap) : groupMap[p].key = key
    ELSE 0

\* rows.forEach((row, idx) => ...) from position i on: fills groupMap
RECURSIVE GroupRows(_, _, _)
GroupRows(rows, i, groupMap) ==
    IF i > Len(rows) THEN groupMap
    ELSE LET key == TopicKey(rows[i])
             p == GroupPosition(groupMap, key)
             withKey ==
                 IF p = 0
                 THEN Append(groupMap,
                             [key |-> key,
                              originalTopic |-> trim(OrEmpty(rows[i], "TOPIC")),
                              indices |-> <<>>])
                 ELSE groupMap
             q == GroupPosition(withKey, key)
         IN GroupRows(rows, i + 1,
                [withKey EXCEPT ![q].indices = Append(@, i - 1)])

\* the number of group rows (from position j on) whose status is `status`
RECURSIVE CountStatus(_, _, _, _)
CountStatus(rows, indices, j, status) ==
    IF j > Len(indices) THEN 0
    ELSE (IF StatusOf(rows[indices[j] + 1]) = status THEN 1 ELSE 0)
         + CountStatus(rows, indices, j + 1, status)

RECURSIVE CountSentiment(_, _, _, _)
CountSentiment(rows, indices, j, sentiment) ==
    IF j > Len(indices) THEN 0
    ELSE (IF SentimentOf(rows[indices[j] + 1]) = sentiment THEN 1 ELSE 0)
         + CountSentiment(rows, indices, j + 1, sentiment)

\* A rate is the fraction num/den; total > 0 ? x / total : 0
\* (variant: drop-offs left out of the failure rate)
FailureRate_UnresolvedOnly(total, unresolved, user_drop_off) ==
    IF total > 0 THEN [num |-> unresolved, den |-> total]
    ELSE [num |-> 0, den |-> 1]
FailureRate(total, unresolved, user_drop_off) ==
    IF total > 0 THEN [num |-> unresolved + user_drop_off, den |-> total]
    ELSE [num |-> 0, den |-> 1]

NegativeRate(total, negative_sentiment) ==
    IF total > 0 THEN [num |-> negative_sentiment, den |-> total]
    ELSE [num |-> 0, den |-> 1]

\* the body of groupMap.forEach: one ClusterSummary
ClusterSummary(rows, group) ==
    LET indices == group.indices
        total == Len(indices)
        unresolved == CountStatus(rows, indices, 1, S_unresolved)
        user_drop_off == CountStatus(rows, indices, 1, S_user_drop_off)
        negative_sentiment == CountSentiment(rows, indices, 1, S_negative)
    IN [topic |-> group.originalTopic,
        total |-> total,
        unresolved |-> unresolved,
        resolution_attempted |->
            CountStatus(rows, indices, 1, S_resolution_attempted),
        partially_resolved |->
            CountStatus(rows, indices, 1, S_partially_resolved),
        user_drop_off |-> user_drop_off,
        positive_sentiment |-> CountSentiment(rows, indices, 1, S_positive),
        neutral_sentiment |-> CountSentiment(rows, indices, 1, S_neutral),
        negative_sentiment |-> negative_sentiment,
        failure_rate |-> FailureRate(total, unresolved, user_drop_off),
        negative_rate |-> NegativeRate(total, negative_sentiment),
        row_indices |-> indices]

\* the sign of (b.failure_rate - a.failure_rate), the sort's comparator
\* (variant: the comparator with a and b exchanged)
CompareFailureRate_Ascending(a, b) ==
    a.failure_rate.num * b.failure_rate.den
        - b.failure_rate.num * a.failure_rate.den
CompareFailureRate(a, b) ==
    b.failure_rate.num * a.failure_rate.den
        - a.failure_rate.num * b.failure_rate.den

\* Array.prototype.sort is stable: x goes before the first element that the
\* comparator orders after it
RECURSIVE InsertCluster(_, _)
InsertCluster(sorted, x) ==
    IF sorted = <<>> THEN <<x>>
    ELSE IF CompareFailureRate(Head(sorted), x) > 0 THEN <<x>> \o sorted
    ELSE <<Head(sorted)>> \o InsertCluster(Tail(sorted), x)

RECURSIVE SortClusters(_, _)
SortClusters(summaries, sorted) ==
    IF summaries = <<>> THEN sorted
    ELSE SortClusters(Tail(summaries), InsertCluster(sorted, Head(summaries)))

buildClusterSummaries(rows) ==
    LET groupMap == GroupRows(rows, 1, <<>>)
        summaries == [g \in 1..Len(groupMap) |-> ClusterSummary(rows, groupMap[g])]
    IN SortClusters(summaries, <<>>)

(***************************************************************************)
(* getFailureRows                                                          *)
(***************************************************************************)
isUnresolved(row) == StatusOf(row) = S_unresolved
isDropOff(row) == StatusOf(row) = S_user_drop_off
isNegative(row) == SentimentOf(row) = S_negative

\* negative=0, unresolved=1, user_drop_off=2 (lower sort key = higher priority)
\* (variant: unresolved tested before negative)
SortKey_UnresolvedFirst(row) ==
    IF isUnresolved(row) THEN 0 ELSE IF isNegative(row) THEN 1 ELSE 2
SortKey(row) ==
    IF isNegative(row) THEN 0 ELSE IF isUnresolved(row) THEN 1 ELSE 2

\* rows.forEach((row, idx) => ...) from position i on: fills result
RECURSIVE CollectFailureRows(_, _, _, _)
CollectFailureRows(rows, i, seen, result) ==
    IF i > Len(rows) THEN result
    ELSE LET row == rows[i]
             idx == i - 1
         IN IF (isNegative(row) \/ isUnresolved(row) \/ isDropOff(row))
               /\ idx \notin seen
            THEN CollectFailureRows(rows, i + 1, seen \cup {idx},
                     Append(result, [row |-> row, originalIndex |-> idx,
                                     sortKey |-> SortKey(row)]))
            ELSE CollectFailureRows(rows, i + 1, seen, result)

\* result.sort((a, b) => a._sortKey - b._sortKey), stable
RECURSIVE InsertFailureRow(_, _)
InsertFailureRow(sorted, x) ==
    IF sorted = <<>> THEN <<x>>
    ELSE IF Head(sorted).sortKey - x.sortKey > 0 THEN <<x>> \o sorted
    ELSE <<Head(sorted)>> \o InsertFailureRow(Tail(sorted), x)

RECURSIVE SortFailureRows(_, _)
SortFailureRows(result, sorted) ==
    IF result = <<>> THEN sorted
    ELSE SortFailureRows(Tail(result), InsertFailureRow(sorted, Head(result)))

\* Array.prototype.slice(0, n) for an integer n >= 0
\* (variant: one element past the cap)
SliceTo_OneMore(seq, n) ==
    SubSeq(seq, 1, IF n + 1 < Len(seq) THEN n + 1 ELSE Len(seq))
SliceTo(seq, n) == SubSeq(seq, 1, IF n < Len(seq) THEN n ELSE Len(seq))

getFailureRows(rows, n) ==
    LET result == CollectFailureRows(rows, 1, {}, <<>>)
        sorted == SortFailureRows(result, <<>>)
        kept == SliceTo(sorted, n)
    IN [k \in 1..Len(kept) |->
           [row |-> kept[k].row, originalIndex |-> kept[k].originalIndex]]

(***************************************************************************)
(* mergeRecommendations                                                    *)
(***************************************************************************)
\* (rec.goalAlignmentScore || 0)
ScoreOf(rec) ==
    IF "goalAlignmentScore" \in DOMAIN rec THEN rec.goalAlignmentScore ELSE 0

\* const key = (rec.topic || '').toLowerCase().trim()
\* (variant: the key without trim)
RecKey_NoTrim(rec) == toLowerCase(OrEmpty(rec, "topic"))
RecKey(rec) == trim(toLowerCase(OrEmpty(rec, "topic")))

\* !existing is decided by the caller; this is the score test of line 208
\* (variants: the comparison reversed, and with ties replacing)
ScoreBeats_Lower(rec, existing) == ScoreOf(rec) < ScoreOf(existing)
ScoreBeats_OrEqual(rec, existing) == ScoreOf(rec) >= ScoreOf(existing)
ScoreBeats(rec, existing) == ScoreOf(rec) > ScoreOf(existing)

MapPosition(map, key) ==
    IF \E p \in 1..Len(map) : map[p].key = key
    THEN CHOOSE p \in 1..Len(map) : map[p].key = key
    ELSE 0

\* for (const rec of [...strategic, ...detail]) from position i on; the Map
\* keeps its keys in insertion order and set() on a present key keeps its place
RECURSIVE MergeLoop(_, _, _)
MergeLoop(recs, i, map) ==
    IF i > Len(recs) THEN map
    ELSE LET rec == recs[i]
             key == RecKey(rec)
             p == MapPosition(map, key)
         IN IF p = 0
            THEN MergeLoop(recs, i + 1, Append(map, [key |-> key, rec |-> rec]))
            ELSE IF ScoreBeats(rec, map[p].rec)
            THEN MergeLoop(recs, i + 1, [map EXCEPT ![p].rec = rec])
            ELSE MergeLoop(recs, i + 1, map)

\* sort((a, b) => (b.goalAlignmentScore || 0) - (a.goalAlignmentScore || 0)),
\* stable
RECURSIVE InsertRec(_, _)
InsertRec(sorted, x) ==
    IF sorted = <<>> THEN <<x>>
    ELSE IF ScoreOf(x) - ScoreOf(Head(sorted)) > 0 THEN <<x>> \o sorted
    ELSE <<Head(sorted)>> \o InsertRec(Tail(sorted), x)

RECURSIVE SortRecs(_, _)
SortRecs(recs, sorted) ==
    IF recs = <<>> THEN sorted
    ELSE SortRecs(Tail(recs), InsertRec(sorted, Head(recs)))

mergeRecommendations(strategicRecs, detailRecs) ==
    LET map == MergeLoop(strategicRecs \o detailRecs, 1, <<>>)
        values == [p \in 1..Len(map) |-> map[p].rec]
    IN SortRecs(values, <<>>)

(***************************************************************************)
(* processBucket                                                           *)
(*                                                                         *)
(* A JSON number is the fraction num/den, any other JSON value in an index *)
(* list is a record without num.  An argument or field that may be         *)
(* undefined is passed as [value |-> v] or as [undefined |-> TRUE]; a JSON *)
(* null in a list of recommendations is the record JsonNull.  An argument  *)
(* that is a truthy value without forEach is NotAList; ReadOfNull stands   *)
(* for an argument expression that raises before the call.                 *)
(***************************************************************************)
JsonNull == [null |-> TRUE]
JsonPrimitive == [primitive |-> TRUE]
NotAList == [notAList |-> TRUE]
ReadOfNull == [readOfNull |-> TRUE]
Undefined == [undefined |-> TRUE]
Defined(v) == [value |-> v]
FieldOf(obj, field) ==
    IF field \in DOMAIN obj THEN Defined(obj[field]) ELSE Undefined

\* (recs || [])
OrEmptyList(arg) == IF "value" \in DOMAIN arg THEN arg.value ELSE <<>>

SetField(obj, field, v) == (field :> v) @@ obj

\* Number.isInteger(idx)
IsInteger(v) == "num" \in DOMAIN v /\ v.num % v.den = 0
NumberOf(v) == v.num \div v.den

\* Number.isInteger(idx) && idx >= 0 && idx < categorizedRows.length
\* (variant: idx > 0)
ValidIndex_Positive(v, rowCount) ==
    IsInteger(v) /\ NumberOf(v) > 0 /\ NumberOf(v) < rowCount
ValidIndex(v, rowCount) ==
    IsInteger(v) /\ NumberOf(v) >= 0 /\ NumberOf(v) < rowCount

RECURSIVE FilterIndices(_, _)
FilterIndices(indices, rowCount) ==
    IF indices = <<>> THEN <<>>
    ELSE IF ValidIndex(Head(indices), rowCount)
    THEN <<Head(indices)>> \o FilterIndices(Tail(indices), rowCount)
    ELSE FilterIndices(Tail(indices), rowCount)

\* rec.indices.forEach(idx => { rows[idx].BUCKET = ...; rows[idx].BUCKET_LABEL = ... })
RECURSIVE StampRows(_, _, _, _)
StampRows(rows, indices, bucketId, label) ==
    IF indices = <<>> THEN rows
    ELSE LET at == NumberOf(Head(indices)) + 1
         IN StampRows(
                [rows EXCEPT ![at] =
                    SetField(SetField(@, "BUCKET", bucketId), "BUCKET_LABEL", label)],
                Tail(indices), bucketId, label)

\* !TOPIC || TOPIC === 'None' || TOPIC === 'N/A'
S_None == <<"N","o","n","e">>
S_NA == <<"N","/","A">>
TopicMissing(row) ==
    OrEmpty(row, "TOPIC") = <<>> \/ row.TOPIC = S_None \/ row.TOPIC = S_NA

\* the forEach of openaiService.ts, which also fills a missing TOPIC
RECURSIVE StampRowsOpenAI(_, _, _, _, _)
StampRowsOpenAI(rows, indices, bucketId, label, rec) ==
    IF indices = <<>> THEN rows
    ELSE LET at == NumberOf(Head(indices)) + 1
             stamped ==
                 SetField(SetField(rows[at], "BUCKET", bucketId),
                          "BUCKET_LABEL", label)
             filled ==
                 IF ~TopicMissing(stamped) THEN stamped
                 ELSE IF "topic" \in DOMAIN rec
                 THEN SetField(stamped, "TOPIC", rec.topic)
                 ELSE [f \in DOMAIN stamped \ {"TOPIC"} |-> stamped[f]]
         IN StampRowsOpenAI([rows EXCEPT ![at] = filled],
                            Tail(indices), bucketId, label, rec)

\* the body of the forEach for a recommendation that carries an index list
FilteredRec(rec, rowCount) ==
    LET kept == FilterIndices(rec.indices, rowCount)
    IN SetField(SetField(rec, "indices", kept), "count", Len(kept))

\* (recs || []).forEach(...) from position i on.  Reading rec.indices of a
\* null element raises a TypeError, which ends the loop.
RECURSIVE ProcessLoop(_, _, _, _, _, _)
ProcessLoop(recs, i, rows, bucketId, label, openai) ==
    IF i > Len(recs) THEN [recs |-> recs, rows |-> rows, threw |-> FALSE]
    ELSE IF recs[i] = JsonNull
    THEN [recs |-> recs, rows |-> rows, threw |-> TRUE]
    ELSE IF "indices" \in DOMAIN recs[i]
    THEN LET rec == FilteredRec(recs[i], Len(rows))
             stamped ==
                 IF openai
                 THEN StampRowsOpenAI(rows, rec.indices, bucketId, label, rec)
                 ELSE StampRows(rows, rec.indices, bucketId, label)
         IN ProcessLoop([recs EXCEPT ![i] = rec], i + 1, stamped,
                        bucketId, label, openai)
    ELSE ProcessLoop(recs, i + 1, rows, bucketId, label, openai)

\* processBucket of the staged pipeline
processBucket(recsArg, rows, bucketId, label) ==
    IF recsArg \in {NotAList, ReadOfNull}
    THEN [recs |-> <<>>, rows |-> rows, threw |-> TRUE]
    ELSE LET looped == ProcessLoop(OrEmptyList(recsArg), 1, rows, bucketId,
                                   label, FALSE)
         IN IF looped.threw THEN looped
            ELSE [looped EXCEPT !.recs = SortRecs(looped.recs, <<>>)]

\* processBucket of analyzeWithOpenAI: recs.sort without the (recs || [])
processBucketOpenAI(recsArg, rows, bucketId, label) ==
    LET looped == ProcessLoop(OrEmptyList(recsArg), 1, rows, bucketId, label, TRUE)
    IN IF looped.threw THEN looped
       ELSE IF recsArg = Undefined THEN [looped EXCEPT !.threw = TRUE]
       ELSE [looped EXCEPT !.recs = SortRecs(looped.recs, <<>>)]

(***************************************************************************)
(* assignBucketsByTopic                                                    *)
(***************************************************************************)
DefaultLabel == "Resolved / Out of Scope"

\* The topic maps are plain objects ({}), so a read of a key the map does
\* not own continues on Object.prototype.  Keys are lower-cased, and the
\* lower-case names Object.prototype answers to are constructor and
\* __proto__; the value found is written by its String() form.
S_constructor == <<"c","o","n","s","t","r","u","c","t","o","r">>
S_proto == <<"_","_","p","r","o","t","o","_","_">>
InheritedKeys == {S_constructor, S_proto}
Inherited(key) ==
    IF key = S_constructor THEN "function Object() { [native code] }"
    ELSE "[object Object]"

\* obj[key]
PropertyOf(map, key) ==
    IF key \in DOMAIN map THEN Defined(map[key])
    ELSE IF key \in InheritedKeys THEN Defined(Inherited(key))
    ELSE Undefined

\* obj[key] = v with a primitive v: the __proto__ setter ignores it
PropertySet(map, key, v) ==
    IF key = S_proto THEN map ELSE (key :> v) @@ map

\* (variant: without the spread of the row, a record of the three new fields)
assignBucketsByTopic_NoSpread(rows, toBucket, toLabel) ==
    [i \in 1..Len(rows) |->
        LET key == TopicKey(rows[i])
            bucket == PropertyOf(toBucket, key)
            label == PropertyOf(toLabel, key)
        IN [TOPIC |-> OrEmpty(rows[i], "TOPIC"),
            BUCKET |-> IF bucket # Undefined THEN bucket.value ELSE "0",
            BUCKET_LABEL |-> IF label # Undefined THEN label.value ELSE DefaultLabel,
            APPROVAL_STATUS |-> "Pending"]]
\* (variant: no first pass, every row starts in bucket "0")
assignBucketsByTopic_NoTopicPass(rows, toBucket, toLabel) ==
    [i \in 1..Len(rows) |->
        SetField(SetField(SetField(rows[i], "BUCKET", "0"),
                          "BUCKET_LABEL", DefaultLabel),
                 "APPROVAL_STATUS", "Pending")]
assignBucketsByTopic(rows, toBucket, toLabel) ==
    [i \in 1..Len(rows) |->
        LET key == TopicKey(rows[i])
            bucket == PropertyOf(toBucket, key)
            label == PropertyOf(toLabel, key)
        IN SetField(SetField(SetField(rows[i], "BUCKET",
                        IF bucket # Undefined THEN bucket.value ELSE "0"),
                    "BUCKET_LABEL",
                        IF label # Undefined THEN label.value ELSE DefaultLabel),
                    "APPROVAL_STATUS", "Pending")]

(***************************************************************************)
(* analyzeWithBatching                                                     *)
(*                                                                         *)
(* The text a stage's call returns is the record [json |-> v] when it      *)
(* decodes (with or without a code fence) to the JSON value v, and a       *)
(* record without json when it is empty or does not decode.  A call that   *)
(* failed leaves the raw text at its initial "".  JSON.parse returns       *)
(* whatever the text encodes: null is JsonNull, a number, string or        *)
(* boolean is JsonPrimitive (every property read of it is undefined), an   *)
(* object is a record.  A field of an object that holds a truthy value     *)
(* that is not a list is named in the object's field nonLists instead of   *)
(* carrying a value.                                                       *)
(***************************************************************************)
EmptyText == [empty |-> TRUE]
MalformedText == [malformed |-> TRUE]

safeJsonParse(text, defaultValue) ==
    IF "json" \in DOMAIN text THEN text.json ELSE defaultValue

StrategicDefault ==
    [topic_assignments |-> <<>>, bucket1 |-> <<>>, bucket2 |-> <<>>, bucket3 |-> <<>>]
DetailDefault == [bucket1 |-> <<>>, bucket2 |-> <<>>, bucket3 |-> <<>>]

\* getFailureRows(csvData, 150)
DetailSampleCap == 150

\* (x || d) for a string field that may be missing or ''
OrDefault(obj, field, d) ==
    IF field \in DOMAIN obj /\ obj[field] # "" THEN obj[field] ELSE d

\* assignments.forEach(...): topicToBucket[key] = bucket || '0'
RECURSIVE BuildTopicToBucket(_, _, _)
BuildTopicToBucket(assignments, i, map) ==
    IF i > Len(assignments) THEN map
    ELSE BuildTopicToBucket(assignments, i + 1,
             PropertySet(map, trim(toLowerCase(OrEmpty(assignments[i], "topic"))),
                         OrDefault(assignments[i], "bucket", "0")))

\* topicToLabel[key] = bucket_label || label || 'Resolved / Out of Scope'
RECURSIVE BuildTopicToLabel(_, _, _)
BuildTopicToLabel(assignments, i, map) ==
    IF i > Len(assignments) THEN map
    ELSE BuildTopicToLabel(assignments, i + 1,
             PropertySet(map, trim(toLowerCase(OrEmpty(assignments[i], "topic"))),
                         OrDefault(assignments[i], "bucket_label",
                             OrDefault(assignments[i], "label", DefaultLabel))))

Label1 == "Service Expansion (New Agent)"
Label2 == "System Optimization (Logic Update)"
Label3 == "Information Gaps (KB Update)"
BucketLabel(b) == IF b = "1" THEN Label1 ELSE IF b = "2" THEN Label2 ELSE Label3

\* parsed.field, as the argument of a call; the read raises a TypeError
\* when parsed is null
ArgOf(parsed, field) ==
    IF parsed = JsonNull THEN ReadOfNull
    ELSE IF "nonLists" \in DOMAIN parsed /\ field \in parsed.nonLists
    THEN NotAList
    ELSE FieldOf(parsed, field)

\* The six processBucket calls of Stage 4, in the order of the code
StageFourCalls(sParsed, dParsed) ==
    << [recs |-> ArgOf(sParsed, "bucket1"), bucketId |-> "1"],
       [recs |-> ArgOf(sParsed, "bucket2"), bucketId |-> "2"],
       [recs |-> ArgOf(sParsed, "bucket3"), bucketId |-> "3"],
       [recs |-> ArgOf(dParsed, "bucket1"), bucketId |-> "1"],
       [recs |-> ArgOf(dParsed, "bucket2"), bucketId |-> "2"],
       [recs |-> ArgOf(dParsed, "bucket3"), bucketId |-> "3"] >>

\* the calls from position i on, each on the rows the one before left.  A
\* call that raises ends the sequence: the later calls do not run.
RECURSIVE ProcessCalls(_, _, _)
ProcessCalls(calls, i, acc) ==
    IF i > Len(calls) THEN acc
    ELSE IF acc.threw
    THEN ProcessCalls(calls, i + 1, [acc EXCEPT !.lists = Append(@, <<>>)])
    ELSE LET r == processBucket(calls[i].recs, acc.rows, calls[i].bucketId,
                                BucketLabel(calls[i].bucketId))
         IN ProcessCalls(calls, i + 1,
                [rows |-> r.rows, threw |-> r.threw,
                 lists |-> Append(acc.lists, r.recs)])

\* (variant: within each stage, bucket 3 first and bucket 1 last)
ApplyDetailOverrides_HighBucketFirst(rows, sParsed, dParsed) ==
    LET calls == StageFourCalls(sParsed, dParsed)
        r == ProcessCalls(<<calls[3], calls[2], calls[1],
                            calls[6], calls[5], calls[4]>>, 1,
                          [rows |-> rows, threw |-> FALSE, lists |-> <<>>])
    IN [r EXCEPT !.lists = <<r.lists[3], r.lists[2], r.lists[1],
                             r.lists[6], r.lists[5], r.lists[4]>>]
\* (variant: the Stage-B calls before the Stage-A calls)
ApplyDetailOverrides_DetailFirst(rows, sParsed, dParsed) ==
    LET calls == StageFourCalls(sParsed, dParsed)
        r == ProcessCalls(SubSeq(calls, 4, 6) \o SubSeq(calls, 1, 3), 1,
                          [rows |-> rows, threw |-> FALSE, lists |-> <<>>])
    IN [r EXCEPT !.lists = SubSeq(r.lists, 4, 6) \o SubSeq(r.lists, 1, 3)]
ApplyDetailOverrides(rows, sParsed, dParsed) ==
    ProcessCalls(StageFourCalls(sParsed, dParsed), 1,
                 [rows |-> rows, threw |-> FALSE, lists |-> <<>>])

(***************************************************************************)
(* withRetry, callOpenAI, callGemini, callAI                               *)
(*                                                                         *)
(* What a provider answers to one attempt:                                 *)
(*   [content |-> t]               OpenAI: 2xx, the message content t      *)
(*   [status |-> n, statusText |-> s, message |-> m]                       *)
(*                                 OpenAI: status n, a JSON body whose     *)
(*                                 error.message is m (field left out when *)
(*                                 the body has none)                      *)
(*   [status |-> n, statusText |-> s, notJson |-> TRUE]                    *)
(*                                 OpenAI: status n, a body that is not    *)
(*                                 JSON                                    *)
(*   [network |-> m]               OpenAI: fetch rejects with message m    *)
(*   [text |-> t]                  Gemini: the SDK resolves                *)
(*   [sdkMessage |-> m, sdkStatus |-> n]                                   *)
(*                                 Gemini: the SDK rejects (either field   *)
(*                                 may be missing)                         *)
(* An error is [message |-> m] with the field status when one was set.     *)
(***************************************************************************)
\* s.includes(sub)
Includes(s, sub) ==
    \E i \in 1..(Len(s) - Len(sub) + 1) : SubSeq(s, i, i + Len(sub) - 1) = sub

DefaultRetries == 3
DefaultDelayMs == 1000

\* the error the operation of callOpenAI raises, lines 58-82
OpenAIError(r) ==
    IF "network" \in DOMAIN r THEN [message |-> r.network]
    ELSE IF "notJson" \in DOMAIN r
    THEN [message |-> "Unexpected token < in JSON at position 0"]
    ELSE [message |-> "OpenAI API error: "
                        \o (IF "message" \in DOMAIN r /\ r.message # ""
                            THEN r.message ELSE r.statusText),
          status |-> r.status]

\* the error the operation of callGemini raises, lines 102-108
GeminiError(r) ==
    LET message == IF "sdkMessage" \in DOMAIN r /\ r.sdkMessage # ""
                   THEN r.sdkMessage ELSE "Unknown Gemini error"
        error == [message |-> "Gemini API error: " \o message]
    IN IF Includes(message, "429") \/ Includes(message, "ResourceExhausted")
       THEN SetField(error, "status", 429)
       ELSE error

\* one invocation of the operation: the text it returns or the error it
\* raises
Operation(p, r) ==
    IF p = "openai"
    THEN (IF "content" \in DOMAIN r THEN [text |-> r.content]
          ELSE [error |-> OpenAIError(r)])
    ELSE (IF "text" \in DOMAIN r THEN [text |-> r.text]
          ELSE [error |-> GeminiError(r)])

\* status === 429 || (status >= 500 && status < 600) ||
\* message.includes('Rate limit') || message.includes('quota')
ShouldRetry(error) ==
    \/ "status" \in DOMAIN error
       /\ (error.status = 429 \/ (error.status >= 500 /\ error.status < 600))
    \/ Includes(error.message, "Rate limit")
    \/ Includes(error.message, "quota")

(***************************************************************************)
(* The topic assignments of a decoded Stage-A response.                    *)
(***************************************************************************)
\* strategicParsed.topic_assignments || [] and its forEach with a
\* destructuring parameter: raises a TypeError on a null response, on a
\* value without forEach and on a null element
AssignmentsRaise(parsed) ==
    \/ parsed = JsonNull
    \/ ArgOf(parsed, "topic_assignments") = NotAList
    \/ \E i \in 1..Len(OrEmpty(parsed, "topic_assignments")) :
           parsed.topic_assignments[i] = JsonNull

\* if (issue_category && bucket !== '0') topicToIssueCategory[key] = issue_category
RECURSIVE BuildTopicToIssueCategory(_, _, _)
BuildTopicToIssueCategory(assignments, i, map) ==
    IF i > Len(assignments) THEN map
    ELSE LET a == assignments[i]
             key == trim(toLowerCase(OrEmpty(a, "topic")))
         IN BuildTopicToIssueCategory(assignments, i + 1,
                IF /\ OrEmpty(a, "issue_category") # <<>>
                   /\ FieldOf(a, "bucket") # Defined("0")
                THEN PropertySet(map, key, a.issue_category)
                ELSE map)

(***************************************************************************)
(* buildIssueCategoryMap and the stamping of ISSUE_CATEGORY                *)
(***************************************************************************)
\* s.split(/[\s_\-,]+/).filter(w => w.length > 2), from position i on, cur
\* being the word under way; the separators are white space, "_", "-", ","
RECURSIVE LongWords(_, _, _)
LongWords(s, i, cur) ==
    IF i > Len(s) THEN (IF Len(cur) > 2 THEN <<cur>> ELSE <<>>)
    ELSE IF IsWhiteSpace(s[i]) \/ s[i] \in {"_", "-", ","}
    THEN (IF Len(cur) > 2 THEN <<cur>> ELSE <<>>) \o LongWords(s, i + 1, <<>>)
    ELSE LongWords(s, i + 1, Append(cur, s[i]))

\* s.split(' ').slice(0, 2).join(' '): s up to its second space
FirstTwoWords(s) ==
    LET spaces == {i \in 1..Len(s) : s[i] = " "}
    IN IF Cardinality(spaces) < 2 THEN s
       ELSE LET first == CHOOSE i \in spaces : \A j \in spaces : i <= j
                second == CHOOSE i \in spaces \ {first} :
                              \A j \in spaces \ {first} : i <= j
            IN SubSeq(s, 1, second - 1)

\* obj[key] as PropertyOf, for the map of issue categories, whose values
\* are topics
Chars(text) == [i \in 1..Len(text) |-> SubSeq(text, i, i)]
IssueCategoryOf(map, key) ==
    IF key \in DOMAIN map THEN Defined(map[key])
    ELSE IF key \in InheritedKeys THEN Defined(Chars(Inherited(key)))
    ELSE Undefined

\* a value in a condition
Truthy(v) == v # Undefined /\ v.value # <<>>

\* (row.TOPIC || '').toLowerCase().trim()
RowKey(row) == trim(toLowerCase(OrEmpty(row, "TOPIC")))

\* the topics of the rows that rec.indices names: the set covered
Covered(rec, rows) ==
    IF "indices" \in DOMAIN rec
    THEN { RowKey(rows[NumberOf(rec.indices[j]) + 1]) :
               j \in 1..Len(rec.indices) } \ {<<>>}
    ELSE {}

\* for (const [recTopic, granularSet] of recTopicToGranularTopics): the
\* position of the first entry whose set has the key, 0 if none.  A Map
\* keeps one entry per key, at the place of the key's first insertion and
\* with the set of its last one.
DirectMatch(bucketRecs, rows, key) ==
    LET TopicAt(i) == FieldOf(bucketRecs[i], "topic")
        EntryPosition(i) ==
            CHOOSE j \in 1..i : /\ TopicAt(j) = TopicAt(i)
                                /\ \A k \in 1..(j - 1) : TopicAt(k) # TopicAt(i)
        LastSet(i) ==
            LET last == CHOOSE j \in i..Len(bucketRecs) :
                            /\ TopicAt(j) = TopicAt(i)
                            /\ \A k \in (j + 1)..Len(bucketRecs) :
                                  TopicAt(k) # TopicAt(i)
            IN Covered(bucketRecs[last], rows)
        hits == { i \in 1..Len(bucketRecs) :
                     EntryPosition(i) = i /\ key \in LastSet(i) }
    IN IF hits = {} THEN 0 ELSE CHOOSE i \in hits : \A j \in hits : i <= j

\* the number of elements of a sequence that satisfy a membership
CountIn(seq, S) == Cardinality({i \in 1..Len(seq) : seq[i] \in S})

\* (variant: 3 points when either topic contains the other)
KeywordScore_EitherContains(rec, key) ==
    LET keyWords == LongWords(key, 1, <<>>)
        clusterWords == {keyWords[i] : i \in 1..Len(keyWords)}
        recLower == toLowerCase(OrEmpty(rec, "topic"))
        recWords == LongWords(recLower, 1, <<>>)
    IN 2 * CountIn(recWords, clusterWords)
       + (IF Includes(recLower, key) \/ Includes(key, recLower) THEN 3 ELSE 0)
       + Cardinality({cw \in clusterWords : Includes(recLower, cw)})
\* the score of one recommendation against a cluster key
KeywordScore(rec, key) ==
    LET keyWords == LongWords(key, 1, <<>>)
        clusterWords == {keyWords[i] : i \in 1..Len(keyWords)}
        recLower == toLowerCase(OrEmpty(rec, "topic"))
        recWords == LongWords(recLower, 1, <<>>)
    IN 2 * CountIn(recWords, clusterWords)
       + (IF Includes(recLower, key) THEN 3
          ELSE IF Includes(key, FirstTwoWords(recLower)) THEN 2 ELSE 0)
       + Cardinality({cw \in clusterWords : Includes(recLower, cw)})

\* bucketRecs.forEach(rec => { ...; if (score > bestScore) {...} }) from
\* position i on
RECURSIVE BestRec(_, _, _, _)
BestRec(bucketRecs, i, key, best) ==
    IF i > Len(bucketRecs) THEN best
    ELSE LET score == KeywordScore(bucketRecs[i], key)
         IN BestRec(bucketRecs, i + 1, key,
                IF score > best.score
                THEN [score |-> score, topic |-> FieldOf(bucketRecs[i], "topic")]
                ELSE best)

\* the three strategies for one cluster key, in the order of the code: the
\* topic of the recommendation chosen, as FieldOf gives it
ChooseIssueCategory(bucketRecs, rows, key) ==
    LET direct == DirectMatch(bucketRecs, rows, key)
        best == BestRec(bucketRecs, 1, key, [score |-> -1, topic |-> Defined(<<>>)])
    IN IF direct # 0 THEN FieldOf(bucketRecs[direct], "topic")
       ELSE IF Truthy(best.topic) /\ best.score > 0 THEN best.topic
       ELSE FieldOf(bucketRecs[1], "topic")

\* topicToIssueCategory[key] = v, v being a topic that may be undefined
IssueCategorySet(map, key, v) ==
    IF key = S_proto THEN map
    ELSE IF v = Undefined THEN (key :> <<>>) @@ map
    ELSE (key :> v.value) @@ map

\* assignments.forEach(...) of buildIssueCategoryMap, from position i on
RECURSIVE IssueCategoryLoop(_, _, _, _, _, _)
IssueCategoryLoop(assignments, i, bucketRecs, bucketId, rows, map) ==
    IF i > Len(assignments) THEN map
    ELSE LET a == assignments[i]
             key == trim(toLowerCase(OrEmpty(a, "topic")))
         IN IssueCategoryLoop(assignments, i + 1, bucketRecs, bucketId, rows,
                IF \/ FieldOf(a, "bucket") # Defined(bucketId)
                   \/ key = <<>>
                   \/ Truthy(IssueCategoryOf(map, key))
                THEN map
                ELSE IssueCategorySet(map, key,
                         ChooseIssueCategory(bucketRecs, rows, key)))

buildIssueCategoryMap(bucketRecs, bucketId, rows, assignments, map) ==
    IF Len(bucketRecs) = 0 THEN map
    ELSE IssueCategoryLoop(assignments, 1, bucketRecs, bucketId, rows, map)

\* categorizedRows.forEach(row => { ... ISSUE_CATEGORY ... })
StampIssueCategory(row, map, buckets) ==
    IF row.BUCKET # "" /\ row.BUCKET # "0"
    THEN LET issueCategory == IssueCategoryOf(map, RowKey(row))
             bktRecs == IF row.BUCKET = "1" THEN buckets[1]
                        ELSE IF row.BUCKET = "2" THEN buckets[2]
                        ELSE buckets[3]
         IN IF Truthy(issueCategory)
            THEN SetField(row, "ISSUE_CATEGORY", issueCategory.value)
            ELSE IF Len(bktRecs) > 0 /\ "topic" \in DOMAIN bktRecs[1]
            THEN SetField(row, "ISSUE_CATEGORY", bktRecs[1].topic)
            ELSE row
    ELSE row

(***************************************************************************)
(* The run log (services/analysisLogger.ts).  The fields that hold times   *)
(* of day read the clock; the token estimate and the duration of a batch   *)
(* are left out, the prompt text not being modelled.                       *)
(***************************************************************************)
RunIds == {"K3J9X2A"}

createLog(runId, now) ==
    [runId |-> runId, startTime |-> now,
     csvTotalRows |-> 0, csvAfterFilter |-> 0, csvFilteredOut |-> 0,
     totalClustersGenerated |-> 0, topClustersSelected |-> 0,
     clustersDropped |-> 0, batchSummary |-> <<>>,
     topicAssignmentsReturned |-> 0, topicAssignmentsMapped |-> 0,
     topicAssignmentsUnmatched |-> 0,
     bucket0Count |-> 0, bucket1Count |-> 0, bucket2Count |-> 0,
     bucket3Count |-> 0, recommendationsGenerated |-> 0,
     rowsAccountedFor |-> 0, dataLossRows |-> 0, dataLossTopics |-> <<>>,
     validationResults |-> <<>>, errors |-> <<>>]

Max(a, b) == IF a >= b THEN a ELSE b

\* if (history.length > 50) history.shift()
HistoryCap == 50

\* the condensed entry of a log
HistoricalEntry(l) ==
    [runId |-> l.runId, endTime |-> l.endTime,
     totalRows |-> l.csvAfterFilter,
     bucketDistribution |->
         [b0 |-> l.bucket0Count, b1 |-> l.bucket1Count,
          b2 |-> l.bucket2Count, b3 |-> l.bucket3Count],
     recommendations |-> l.recommendationsGenerated]

saveToHistory_AppendOnly(h, l) == Append(h, HistoricalEntry(l))
saveToHistory(h, l) ==
    LET historicalEntry ==
            [runId |-> l.runId, endTime |-> l.endTime,
             totalRows |-> l.csvAfterFilter,
             bucketDistribution |->
                 [b0 |-> l.bucket0Count, b1 |-> l.bucket1Count,
                  b2 |-> l.bucket2Count, b3 |-> l.bucket3Count],
             recommendations |-> l.recommendationsGenerated]
        pushed == Append(h, historicalEntry)
    IN IF Len(pushed) > HistoryCap THEN Tail(pushed) ELSE pushed

\* the log after finaliseLog(log)
finaliseLog(l, now) ==
    SetField(SetField(l, "endTime", now), "dataLossRows",
             Max(0, l.csvAfterFilter - l.rowsAccountedFor))

\* Stage 1 on the log (lines 257-284)
LogClustering(l, rows, clusters) ==
    [l EXCEPT !.csvTotalRows = Len(rows), !.csvAfterFilter = Len(rows),
              !.totalClustersGenerated = Len(clusters),
              !.topClustersSelected = IF Len(clusters) < 20 THEN Len(clusters) ELSE 20,
              !.clustersDropped = Max(0, Len(clusters) - 20)]

\* the catch and the batch summary of one stage
StageAPrefix == "Stage 2 (Strategic) API Error: "
StageBPrefix == "Stage 3 (Detail) API Error: "
StageAName == "Stage 2: Strategic Mapping"
StageBName == "Stage 3: Detail Recommendations"

LogStage(l, outcome, prefix, batchName, inputSize) ==
    LET failed == "error" \in DOMAIN outcome
        pushed == IF failed
                  THEN [l EXCEPT !.errors = Append(@, prefix \o outcome.error)]
                  ELSE l
    IN [pushed EXCEPT !.batchSummary =
            Append(@, IF failed
                      THEN [batchName |-> batchName, inputSize |-> inputSize,
                            success |-> FALSE, errorMessage |-> outcome.error]
                      ELSE [batchName |-> batchName, inputSize |-> inputSize,
                            success |-> TRUE])]

\* the value of strategicRaw or detailRaw after the try
RawOf(outcome) == IF "text" \in DOMAIN outcome THEN outcome.text ELSE EmptyText

\* lines 399-418: the topics of the rows that the map answers for
MappedTopics(rows, toBucket) ==
    { k \in { RowKey(rows[i]) : i \in 1..Len(rows) } :
          PropertyOf(toBucket, k) # Undefined }

RECURSIVE DataLossTopics(_, _, _)
DataLossTopics(clusters, i, toBucket) ==
    IF i > Len(clusters) THEN <<>>
    ELSE (IF PropertyOf(toBucket, trim(toLowerCase(clusters[i].topic))) = Undefined
          THEN <<clusters[i].topic>> ELSE <<>>)
         \o DataLossTopics(clusters, i + 1, toBucket)

LogMapping(l, rows, clusters, toBucket) ==
    LET uniqueTopicsMapped == Cardinality(MappedTopics(rows, toBucket))
    IN [l EXCEPT !.topicAssignmentsMapped = uniqueTopicsMapped,
                 !.topicAssignmentsUnmatched =
                     Max(0, l.totalClustersGenerated - uniqueTopicsMapped),
                 !.dataLossTopics = DataLossTopics(clusters, 1, toBucket)]

\* lines 529-543: the final counts
LogCounts(l, rows, buckets) ==
    LET CountBucket(b) == Cardinality({i \in 1..Len(rows) : rows[i].BUCKET = b})
    IN [l EXCEPT !.recommendationsGenerated =
                     Len(buckets[1]) + Len(buckets[2]) + Len(buckets[3]),
                 !.bucket1Count = CountBucket("1"),
                 !.bucket2Count = CountBucket("2"),
                 !.bucket3Count = CountBucket("3"),
                 !.bucket0Count = Len(rows) - CountBucket("1")
                                  - CountBucket("2") - CountBucket("3"),
                 !.rowsAccountedFor = Len(rows)]

\* the outer catch: the error is pushed and the log is finalised
CriticalPrefix == "Critical Pipeline Error: "
CatchBlock_NoFinalise(l, now, error) ==
    [l EXCEPT !.errors = Append(@, CriticalPrefix \o error.message)]
CatchBlock(l, now, error) ==
    finaliseLog([l EXCEPT !.errors = Append(@, CriticalPrefix \o error.message)],
                now)

\* the TypeError a read of a property of null or a call of a missing
\* method raises
TypeError == [message |-> "TypeError"]

(***************************************************************************)
(* services/validationService.ts.  The texts of a recommendation           *)
(* (recommendation, problemStatement) are strings; a field that holds a    *)
(* truthy value of another type is named in the recommendation's field     *)
(* nonStrings, and an indices field that is not a list in nonLists.        *)
(***************************************************************************)
HasNonList(rec, field) == "nonLists" \in DOMAIN rec /\ field \in rec.nonLists
HasNonString(rec, field) ==
    "nonStrings" \in DOMAIN rec /\ field \in rec.nonStrings

\* a number or a string has no filter: the call raises a TypeError
IndicesRaise(recs) ==
    \E i \in 1..Len(recs) : HasNonList(recs[i], "indices")

\* bad = rec.indices?.filter(idx => !Number.isInteger(idx) || idx < 0 ||
\* idx >= totalRows) || []; the recommendation is invalid if bad.length > 0
validateIndices(recs, totalRows) ==
    LET Bad(indices) == { j \in 1..Len(indices) :
                            ~ValidIndex(indices[j], totalRows) }
        invalid == { i \in 1..Len(recs) :
                        Bad(OrEmpty(recs[i], "indices")) # {} }
    IN IF invalid # {}
       THEN [type |-> "Index", status |-> "Fail"]
       ELSE [type |-> "Index", status |-> "Pass"]

\* categorizedRows.find(r => (r.TOPIC || '').toLowerCase() === (c.topic || '').toLowerCase())
FindRow(rows, c) ==
    LET same == { i \in 1..Len(rows) :
                     toLowerCase(OrEmpty(rows[i], "TOPIC")) = toLowerCase(c.topic) }
    IN IF same = {} THEN Undefined
       ELSE Defined(rows[CHOOSE i \in same : \A j \in same : i <= j])

\* c.failure_rate > 0.15 and c.negative_rate > 0.10 are taken on the exact
\* fractions
validateBucketConsistency(rows, clusterSummaries) ==
    LET HighFailure(c) == c.failure_rate.num * 100 > 15 * c.failure_rate.den
        HighNegative(c) == c.negative_rate.num * 100 > 10 * c.negative_rate.den
        inconsistencies ==
            { i \in 1..Len(clusterSummaries) :
                LET row == FindRow(rows, clusterSummaries[i])
                IN /\ row # Undefined
                   /\ row.value.BUCKET = "0"
                   /\ (HighFailure(clusterSummaries[i])
                        \/ HighNegative(clusterSummaries[i])) }
    IN IF inconsistencies # {}
       THEN [type |-> "Bucket", status |-> "Warning"]
       ELSE [type |-> "Bucket", status |-> "Pass"]

validateExamplePresence(recs) ==
    LET missingExamples ==
            { i \in 1..Len(recs) :
                OrEmpty(recs[i], "examples") = <<>> }
    IN IF missingExamples # {}
       THEN [type |-> "Examples", status |-> "Fail"]
       ELSE [type |-> "Examples", status |-> "Pass"]

strategicKeywords ==
    {"implement", "update", "fix", "add", "create", "optimize", "improve", "expand"}

\* (rec.field || '').toLowerCase()
LowerText(rec, field) ==
    IF field \in DOMAIN rec THEN toLowerCase(Chars(rec[field])) ELSE <<>>

\* a number or an object has no toLowerCase: the call raises a TypeError
QualityRaises(recs) ==
    \E i \in 1..Len(recs) :
        \/ HasNonString(recs[i], "recommendation")
        \/ HasNonString(recs[i], "problemStatement")

validateRecommendationQuality(recs) ==
    LET poorQuality ==
            { i \in 1..Len(recs) :
                LET text == LowerText(recs[i], "recommendation")
                    problem == LowerText(recs[i], "problemStatement")
                IN \/ Len(text) < 20 \/ Len(problem) < 20
                   \/ ~\E kw \in strategicKeywords : Includes(text, Chars(kw)) }
    IN IF poorQuality # {}
       THEN [type |-> "Quality", status |-> "Warning"]
       ELSE [type |-> "Quality", status |-> "Pass"]

\* the four validators in the order of the list literal; the first that
\* raises ends the call
runAllValidations(recs, rows, clusterSummaries) ==
    IF IndicesRaise(recs) \/ QualityRaises(recs)
    THEN [threw |-> TRUE]
    ELSE [threw |-> FALSE,
          results |-> << validateIndices(recs, Len(rows)),
                         validateBucketConsistency(rows, clusterSummaries),
                         validateExamplePresence(recs),
                         validateRecommendationQuality(recs) >>]

(***************************************************************************)
(* Inputs.                                                                 *)
(***************************************************************************)
toUpperCaseChar(c) ==
    IF \E i \in 1..Len(LowerCase) : LowerCase[i] = c
    THEN UpperCase[CHOOSE i \in 1..Len(LowerCase) : LowerCase[i] = c]
    ELSE c
UpperCased(s) == [i \in 1..Len(s) |-> toUpperCaseChar(s[i])]
Capitalised(s) == <<toUpperCaseChar(Head(s))>> \o Tail(s)
Padded(s) == <<" ">> \o s \o <<" ">>

S_resolved == <<"r","e","s","o","l","v","e","d">>
S_login_issue == <<"l","o","g","i","n","_","i","s","s","u","e">>
S_refund == <<"r","e","f","u","n","d">>

Row(t, s, u) == [TOPIC |-> t, RESOLUTION_STATUS |-> s, USER_SENTIMENT |-> u]

\* sequences over S of length at most n
SeqsUpTo(S, n) == UNION {[1..k -> S] : k \in 0..n}

\* rows whose topics collide after normalisation, with every counted status
ClusterRowInputs ==
    { Row(<<"a">>, S_unresolved, S_negative),
      Row(<<"A">>, Padded(Capitalised(S_unresolved)), S_positive),
      Row(<<" ", "a", " ">>, S_user_drop_off, UpperCased(S_negative)),
      Row(<<"b">>, S_resolved, S_neutral),
      Row(<<"b">>, S_unresolved, S_positive),
      Row(<<"B", " ">>, S_partially_resolved, S_negative),
      Row(<<>>, UpperCased(S_user_drop_off), S_positive),
      Row(<<"A", " ">>, S_resolution_attempted, Padded(S_positive)),
      Row(<<"a", " ", "b">>, S_resolved, Padded(S_negative)),
      [RESOLUTION_STATUS |-> S_resolved] }

\* the scenario of 10 rows: 6 of topic login_issue (4 unresolved, 2 resolved)
\* and 4 of topic refund (all resolved), in every order
ScenarioRows ==
    LET lu == Row(S_login_issue, S_unresolved, S_negative)
        lr == Row(S_login_issue, S_resolved, S_positive)
        rr == Row(S_refund, S_resolved, S_positive)
        N(f, r) == Cardinality({i \in DOMAIN f : f[i] = r})
    IN {f \in [1..10 -> {lu, lr, rr}] :
            N(f, lu) = 4 /\ N(f, lr) = 2 /\ N(f, rr) = 4}

ClusterInputs == SeqsUpTo(ClusterRowInputs, MaxRows) \cup ScenarioRows

\* rows of every priority class, alone and combined, and rows that do not
\* qualify
FailureRowInputs ==
    { Row(<<"a">>, S_unresolved, S_negative),
      Row(<<"a">>, S_resolved, Capitalised(S_negative)),
      Row(<<"b">>, Padded(S_unresolved), S_positive),
      Row(<<"b">>, S_user_drop_off, S_neutral),
      Row(<<"c">>, UpperCased(S_user_drop_off), S_negative),
      Row(<<"c">>, S_resolved, S_positive),
      Row(<<"d">>, S_partially_resolved, S_neutral),
      [TOPIC |-> <<"d">>] }

RecTopics == { <<"x">>, <<"X", " ">>, <<"y">> }

StrategicRecInputs ==
    { [topic |-> t, goalAlignmentScore |-> g, recommendation |-> "strategic"] :
        t \in RecTopics, g \in {3, 7} }
    \cup { [recommendation |-> "strategic"] }

DetailRecInputs ==
    { [topic |-> t, goalAlignmentScore |-> g, recommendation |-> "detail"] :
        t \in RecTopics, g \in {3, 7} }
    \cup { [recommendation |-> "detail"] }

Num(n) == [num |-> n, den |-> 1]

\* rows as processBucket receives them: already stamped by the first pass
ProcessRowInputs ==
    { [TOPIC |-> <<"a">>, BUCKET |-> "0", BUCKET_LABEL |-> DefaultLabel,
       APPROVAL_STATUS |-> "Pending"],
      [TOPIC |-> S_NA, BUCKET |-> "2", BUCKET_LABEL |-> Label2,
       APPROVAL_STATUS |-> "Pending"] }

\* the scenario of a 10-row dataset
TenRows ==
    [i \in 1..10 |-> [TOPIC |-> <<"a">>, BUCKET |-> "0",
                      BUCKET_LABEL |-> DefaultLabel, APPROVAL_STATUS |-> "Pending"]]

\* recommendations with valid, out-of-range, negative, fractional and string
\* indices, with a count the model supplied, without indices, and a null
ProcessRecInputs ==
    { [topic |-> <<"x">>, goalAlignmentScore |-> 7, indices |-> <<Num(0)>>],
      [topic |-> <<"y">>, goalAlignmentScore |-> 3, count |-> 5,
       indices |-> <<Num(1), Num(999), Num(0)>>],
      [topic |-> <<"z">>,
       indices |-> <<Num(-1), [num |-> 3, den |-> 2], [str |-> "2"], Num(2)>>],
      [topic |-> <<"x">>, goalAlignmentScore |-> 9],
      JsonNull }

PipelineRowInputs ==
    { Row(<<"a">>, S_unresolved, S_negative),
      Row(<<"B", " ">>, S_user_drop_off, S_neutral) }

TopicAssignmentInputs ==
    { <<>>,
      << [topic |-> <<"a">>, bucket |-> "2", bucket_label |-> Label2] >>,
      << [topic |-> <<"A">>, bucket |-> "1", label |-> Label1],
         [topic |-> <<"b">>, bucket |-> "0"] >>,
      << [topic |-> <<" ", "B">>, bucket |-> "3", bucket_label |-> Label3],
         [topic |-> <<"a">>, bucket |-> "2"] >> }

StrategicListInputs ==
    { <<>>,
      << [topic |-> <<"x">>, goalAlignmentScore |-> 7,
          recommendation |-> "strategic"] >>,
      << [topic |-> <<"y">>, goalAlignmentScore |-> 5, indices |-> <<Num(0)>>,
          recommendation |-> "strategic"] >> }

DetailRecA ==
    [topic |-> <<"X">>, goalAlignmentScore |-> 7, indices |-> <<Num(0)>>,
     recommendation |-> "detail"]
DetailRecB ==
    [topic |-> <<"y">>, goalAlignmentScore |-> 8,
     indices |-> <<Num(1), Num(999), Num(0)>>, recommendation |-> "detail"]

DetailListInputs ==
    { <<>>, <<DetailRecA>>, <<DetailRecB>>, <<JsonNull>> }

\* three bucket lists holding at most n recommendations together
ListTriples(lists, n) ==
    { t \in lists \X lists \X lists : Len(t[1]) + Len(t[2]) + Len(t[3]) <= n }

\* the JSON values a Stage-A response can decode to
StrategicJson ==
    { [topic_assignments |-> ta, bucket1 |-> t[1], bucket2 |-> t[2],
       bucket3 |-> t[3]] :
        ta \in TopicAssignmentInputs,
        t \in ListTriples(StrategicListInputs, MaxStrategicRecs) }

\* the JSON values a Stage-B response can decode to
DetailJson ==
    { [bucket1 |-> t[1], bucket2 |-> t[2], bucket3 |-> t[3]] :
        t \in ListTriples(DetailListInputs, MaxDetailRecs) }
    \cup { [bucket1 |-> <<DetailRecA>>] }

\* what a stage's call ends in: the error callAI raised, or a text
StageOutcomes(jsonValues) ==
    { [error |-> "OpenAI API error: Rate limit reached for requests",
       status |-> 429] }
    \cup { [text |-> t] :
             t \in {EmptyText, MalformedText} \cup { [json |-> j] : j \in jsonValues } }

Idle == <<>>

\* no run and no call is under way
IdleRun ==
    /\ topicToIssueCategory = Idle /\ log = Idle /\ history = Idle
    /\ clock = 0 /\ criticalError = Idle
IdleCall ==
    /\ provider = Idle /\ retries = 0 /\ delayMs = 0 /\ attempts = 0
    /\ waits = Idle /\ response = Idle /\ callResult = Idle

(***************************************************************************)
(* SpecCluster: buildClusterSummaries applied to every input collection.   *)
(***************************************************************************)
InitCluster ==
    /\ pc = "cluster"
    /\ csvData \in ClusterInputs
    /\ allClusters = Idle
    /\ topN = 0 /\ failureEntry = Idle
    /\ strategic = Idle /\ detail = Idle /\ merged = Idle
    /\ pbArgs = Idle /\ pbResult = Idle
    /\ strategicParsed = Idle /\ detailParsed = Idle
    /\ topicToBucket = Idle /\ topicToLabel = Idle /\ categorizedRows = Idle
    /\ strategicBuckets = Idle /\ detailBuckets = Idle /\ recommendations = Idle
    /\ IdleRun /\ IdleCall

BuildClusters ==
    /\ pc = "cluster"
    /\ allClusters' = buildClusterSummaries(csvData)
    /\ pc' = "clustered"
    /\ UNCHANGED <<csvData, topN, failureEntry, strategic, detail, merged,
                   pbArgs, pbResult, strategicParsed, detailParsed,
                   topicToBucket, topicToLabel, categorizedRows,
                   strategicBuckets, detailBuckets, recommendations, runVars, callVars>>

NextCluster == BuildClusters

SpecCluster == InitCluster /\ [][NextCluster]_vars

(***************************************************************************)
(* SpecFailure: getFailureRows applied to every input collection and cap.  *)
(***************************************************************************)
InitFailure ==
    /\ pc = "sample"
    /\ csvData \in SeqsUpTo(FailureRowInputs, MaxRows)
    /\ topN \in 0..MaxTopN
    /\ failureEntry = Idle
    /\ allClusters = Idle
    /\ strategic = Idle /\ detail = Idle /\ merged = Idle
    /\ pbArgs = Idle /\ pbResult = Idle
    /\ strategicParsed = Idle /\ detailParsed = Idle
    /\ topicToBucket = Idle /\ topicToLabel = Idle /\ categorizedRows = Idle
    /\ strategicBuckets = Idle /\ detailBuckets = Idle /\ recommendations = Idle
    /\ IdleRun /\ IdleCall

SampleFailureRows ==
    /\ pc = "sample"
    /\ failureEntry' = getFailureRows(csvData, topN)
    /\ pc' = "sampled"
    /\ UNCHANGED <<csvData, topN, allClusters, strategic, detail, merged,
                   pbArgs, pbResult, strategicParsed, detailParsed,
                   topicToBucket, topicToLabel, categorizedRows,
                   strategicBuckets, detailBuckets, recommendations, runVars, callVars>>

NextFailure == SampleFailureRows

SpecFailure == InitFailure /\ [][NextFailure]_vars

(***************************************************************************)
(* SpecMerge: mergeRecommendations applied to every pair of lists.         *)
(***************************************************************************)
InitMerge ==
    /\ pc = "merge"
    /\ strategic \in SeqsUpTo(StrategicRecInputs, MaxRecs)
    /\ detail \in SeqsUpTo(DetailRecInputs, MaxRecs)
    /\ merged = Idle
    /\ csvData = Idle /\ topN = 0 /\ allClusters = Idle /\ failureEntry = Idle
    /\ pbArgs = Idle /\ pbResult = Idle
    /\ strategicParsed = Idle /\ detailParsed = Idle
    /\ topicToBucket = Idle /\ topicToLabel = Idle /\ categorizedRows = Idle
    /\ strategicBuckets = Idle /\ detailBuckets = Idle /\ recommendations = Idle
    /\ IdleRun /\ IdleCall

MergeLists ==
    /\ pc = "merge"
    /\ merged' = mergeRecommendations(strategic, detail)
    /\ pc' = "merged"
    /\ UNCHANGED <<csvData, topN, allClusters, failureEntry, strategic, detail,
                   pbArgs, pbResult, strategicParsed, detailParsed,
                   topicToBucket, topicToLabel, categorizedRows,
                   strategicBuckets, detailBuckets, recommendations, runVars, callVars>>

NextMerge == MergeLists

SpecMerge == InitMerge /\ [][NextMerge]_vars

(***************************************************************************)
(* SpecProcessBucket: both processBucket functions applied to every call.  *)
(***************************************************************************)
InitProcessBucket ==
    /\ pc = "process"
    /\ pbArgs \in
         { [recs |-> r, rows |-> rows, bucketId |-> b] :
             r \in { Defined(l) : l \in SeqsUpTo(ProcessRecInputs, MaxRecs) }
                   \cup { Undefined },
             rows \in SeqsUpTo(ProcessRowInputs, MaxRows) \cup { TenRows },
             b \in {"1", "2", "3"} }
    /\ pbResult = Idle
    /\ csvData = Idle /\ topN = 0 /\ allClusters = Idle /\ failureEntry = Idle
    /\ strategic = Idle /\ detail = Idle /\ merged = Idle
    /\ strategicParsed = Idle /\ detailParsed = Idle
    /\ topicToBucket = Idle /\ topicToLabel = Idle /\ categorizedRows = Idle
    /\ strategicBuckets = Idle /\ detailBuckets = Idle /\ recommendations = Idle
    /\ IdleRun /\ IdleCall

\* processBucket as analyzeWithBatching calls it
ProcessBucketBatching ==
    /\ pc = "process"
    /\ pbResult' = processBucket(pbArgs.recs, pbArgs.rows, pbArgs.bucketId,
                                 BucketLabel(pbArgs.bucketId))
    /\ pc' = "processed"
    /\ UNCHANGED <<csvData, topN, allClusters, failureEntry, strategic, detail,
                   merged, pbArgs, strategicParsed, detailParsed,
                   topicToBucket, topicToLabel, categorizedRows,
                   strategicBuckets, detailBuckets, recommendations, runVars, callVars>>

\* processBucket as analyzeWithOpenAI calls it
ProcessBucketOpenAI ==
    /\ pc = "process"
    /\ pbResult' = processBucketOpenAI(pbArgs.recs, pbArgs.rows, pbArgs.bucketId,
                                       BucketLabel(pbArgs.bucketId))
    /\ pc' = "processedOpenAI"
    /\ UNCHANGED <<csvData, topN, allClusters, failureEntry, strategic, detail,
                   merged, pbArgs, strategicParsed, detailParsed,
                   topicToBucket, topicToLabel, categorizedRows,
                   strategicBuckets, detailBuckets, recommendations, runVars, callVars>>

NextProcessBucket == ProcessBucketBatching \/ ProcessBucketOpenAI

SpecProcessBucket == InitProcessBucket /\ [][NextProcessBucket]_vars

(***************************************************************************)
(* Spec: one run of analyzeWithBatching.  An action is the code between    *)
(* two awaits: up to the Stage-A call, from its settling to the Stage-B    *)
(* call, and from the settling of that one to the end of Stage 4.  The end *)
(* of the run is taken one call at a time: finaliseLog, then the return;   *)
(* the outer catch, then the re-raise.                                     *)
(***************************************************************************)
funcVars == <<topN, strategic, detail, merged, pbArgs, pbResult>>

InitRun(rowInputs) ==
    /\ pc = "start"
    /\ csvData \in rowInputs
    /\ allClusters = Idle /\ failureEntry = Idle
    /\ strategicParsed = Idle /\ detailParsed = Idle
    /\ topicToBucket = Idle /\ topicToLabel = Idle /\ categorizedRows = Idle
    /\ strategicBuckets = Idle /\ detailBuckets = Idle /\ recommendations = Idle
    /\ topN = 0
    /\ strategic = Idle /\ detail = Idle /\ merged = Idle
    /\ pbArgs = Idle /\ pbResult = Idle
    /\ topicToIssueCategory = Idle /\ log = Idle /\ history = <<>>
    /\ clock = 0 /\ criticalError = Idle
    /\ IdleCall

Init == InitRun(SeqsUpTo(PipelineRowInputs, MaxPipelineRows))

\* createLog, Stage 1 (clustering) and the issue of the Stage-A call
Begin ==
    /\ pc = "start"
    /\ allClusters' = buildClusterSummaries(csvData)
    /\ \E runId \in RunIds :
         log' = LogClustering(createLog(runId, clock), csvData, allClusters')
    /\ pc' = "strategic"
    /\ UNCHANGED <<csvData, failureEntry, strategicParsed, detailParsed,
                   topicToBucket, topicToLabel, categorizedRows,
                   strategicBuckets, detailBuckets, recommendations,
                   topicToIssueCategory, history, clock, criticalError,
                   funcVars, callVars>>

\* the Stage-A call settles with the given outcome: parse, topic maps,
\* sampling, issue of Stage B
\* (variant: the first pass over the rows as soon as Stage A has settled)
StrategicStep_AssignsAtStageA(outcome) ==
    LET parsed == safeJsonParse(RawOf(outcome), StrategicDefault)
        logged == LogStage(log, outcome, StageAPrefix, StageAName,
                           IF Len(allClusters) < 20 THEN Len(allClusters) ELSE 20)
    IN /\ pc = "strategic"
       /\ strategicParsed' = parsed
       /\ clock' = clock + 1
       /\ IF AssignmentsRaise(parsed)
          THEN /\ log' = logged
               /\ criticalError' = TypeError
               /\ pc' = "caught"
               /\ UNCHANGED <<topicToBucket, topicToLabel, topicToIssueCategory,
                              topN, failureEntry, categorizedRows>>
          ELSE LET assignments == OrEmpty(parsed, "topic_assignments")
               IN /\ log' = [logged EXCEPT !.topicAssignmentsReturned =
                                               Len(assignments)]
                  /\ topicToBucket' = BuildTopicToBucket(assignments, 1, <<>>)
                  /\ topicToLabel' = BuildTopicToLabel(assignments, 1, <<>>)
                  /\ topicToIssueCategory' =
                         BuildTopicToIssueCategory(assignments, 1, <<>>)
                  /\ topN' = DetailSampleCap
                  /\ categorizedRows' =
                         assignBucketsByTopic(csvData, topicToBucket', topicToLabel')
                  /\ failureEntry' = getFailureRows(csvData, DetailSampleCap)
                  /\ criticalError' = criticalError
                  /\ pc' = "detail"
       /\ UNCHANGED <<csvData, allClusters, strategic, detail, merged, pbArgs,
                      pbResult, detailParsed,
                      strategicBuckets, detailBuckets, recommendations,
                      history, callVars>>
StrategicStep(outcome) ==
    LET parsed == safeJsonParse(RawOf(outcome), StrategicDefault)
        logged == LogStage(log, outcome, StageAPrefix, StageAName,
                           IF Len(allClusters) < 20 THEN Len(allClusters) ELSE 20)
    IN /\ pc = "strategic"
       /\ strategicParsed' = parsed
       /\ clock' = clock + 1
       /\ IF AssignmentsRaise(parsed)
          THEN /\ log' = logged
               /\ criticalError' = TypeError
               /\ pc' = "caught"
               /\ UNCHANGED <<topicToBucket, topicToLabel, topicToIssueCategory,
                              topN, failureEntry>>
          ELSE LET assignments == OrEmpty(parsed, "topic_assignments")
               IN /\ log' = [logged EXCEPT !.topicAssignmentsReturned =
                                               Len(assignments)]
                  /\ topicToBucket' = BuildTopicToBucket(assignments, 1, <<>>)
                  /\ topicToLabel' = BuildTopicToLabel(assignments, 1, <<>>)
                  /\ topicToIssueCategory' =
                         BuildTopicToIssueCategory(assignments, 1, <<>>)
                  /\ topN' = DetailSampleCap
                  /\ failureEntry' = getFailureRows(csvData, DetailSampleCap)
                  /\ criticalError' = criticalError
                  /\ pc' = "detail"
       /\ UNCHANGED <<csvData, allClusters, strategic, detail, merged, pbArgs,
                      pbResult, detailParsed, categorizedRows,
                      strategicBuckets, detailBuckets, recommendations,
                      history, callVars>>

\* buildIssueCategoryMap for buckets 1, 2, 3 and the stamping of the rows
IssueCategories(rows, buckets, assignments, map) ==
    LET m1 == buildIssueCategoryMap(buckets[1], "1", rows, assignments, map)
        m2 == buildIssueCategoryMap(buckets[2], "2", rows, assignments, m1)
        m3 == buildIssueCategoryMap(buckets[3], "3", rows, assignments, m2)
    IN [map |-> m3,
        rows |-> [i \in 1..Len(rows) |-> StampIssueCategory(rows[i], m3, buckets)]]

\* the Stage-B call settles with the given outcome: parse and Stage 4 (both
\* passes, the merge and, in the pipeline that has them, the issue
\* categories).  An exception raised on the way reaches the outer catch.
DetailStep(outcome, issueCategories, after) ==
    LET parsed == safeJsonParse(RawOf(outcome), DetailDefault)
        logged == LogStage(log, outcome, StageBPrefix, StageBName,
                           Len(failureEntry))
        firstPass == assignBucketsByTopic(csvData, topicToBucket, topicToLabel)
        mapped == LogMapping(logged, firstPass, allClusters, topicToBucket)
        applied == ApplyDetailOverrides(firstPass, strategicParsed, parsed)
        buckets == [b \in 1..3 |->
                       mergeRecommendations(applied.lists[b], applied.lists[b + 3])]
        stamped == IF issueCategories
                   THEN IssueCategories(applied.rows, buckets,
                                        OrEmpty(strategicParsed, "topic_assignments"),
                                        topicToIssueCategory)
                   ELSE [map |-> topicToIssueCategory, rows |-> applied.rows]
    IN /\ pc = "detail"
       /\ detailParsed' = parsed
       /\ clock' = clock + 1
       /\ strategicBuckets' = SubSeq(applied.lists, 1, 3)
       /\ detailBuckets' = SubSeq(applied.lists, 4, 6)
       /\ IF applied.threw
          THEN /\ categorizedRows' = applied.rows
               /\ recommendations' = Idle
               /\ log' = mapped
               /\ criticalError' = TypeError
               /\ pc' = "caught"
               /\ UNCHANGED topicToIssueCategory
          ELSE /\ categorizedRows' = stamped.rows
               /\ topicToIssueCategory' = stamped.map
               /\ recommendations' = buckets
               /\ log' = LogCounts(mapped, stamped.rows, buckets)
               /\ criticalError' = criticalError
               /\ pc' = after
       /\ UNCHANGED <<csvData, topN, allClusters, failureEntry, strategic, detail,
                      merged, pbArgs, pbResult, strategicParsed,
                      topicToBucket, topicToLabel, history, callVars>>

StrategicSettled == \E outcome \in StageOutcomes(StrategicJson) : StrategicStep(outcome)

DetailSettled ==
    \E outcome \in StageOutcomes(DetailJson) : DetailStep(outcome, TRUE, "finalise")

\* finaliseLog(log) at the end of the try block
Finalise ==
    /\ pc = "finalise"
    /\ log' = finaliseLog(log, clock)
    /\ history' = saveToHistory(history, log')
    /\ pc' = "return"
    /\ UNCHANGED <<csvData, allClusters, failureEntry, strategicParsed,
                   detailParsed, topicToBucket, topicToLabel, categorizedRows,
                   strategicBuckets, detailBuckets, recommendations,
                   topicToIssueCategory, clock, criticalError, funcVars,
                   callVars>>

\* return { categorizedRows, recommendations, ..., analysisLog: log }
Return ==
    /\ pc = "return"
    /\ pc' = "done"
    /\ UNCHANGED <<csvData, allClusters, failureEntry, strategicParsed,
                   detailParsed, topicToBucket, topicToLabel, categorizedRows,
                   strategicBuckets, detailBuckets, recommendations,
                   runVars, funcVars, callVars>>

\* the outer catch up to its finaliseLog(log)
CatchCritical ==
    /\ pc = "caught"
    /\ log' = CatchBlock(log, clock, criticalError)
    /\ history' = IF "endTime" \in DOMAIN log'
                  THEN saveToHistory(history, log') ELSE history
    /\ pc' = "rethrow"
    /\ UNCHANGED <<csvData, allClusters, failureEntry, strategicParsed,
                   detailParsed, topicToBucket, topicToLabel, categorizedRows,
                   strategicBuckets, detailBuckets, recommendations,
                   topicToIssueCategory, clock, criticalError, funcVars,
                   callVars>>

\* throw criticalError
Rethrow ==
    /\ pc = "rethrow"
    /\ pc' = "threw"
    /\ UNCHANGED <<csvData, allClusters, failureEntry, strategicParsed,
                   detailParsed, topicToBucket, topicToLabel, categorizedRows,
                   strategicBuckets, detailBuckets, recommendations,
                   runVars, funcVars, callVars>>

EndOfRun == Finalise \/ Return \/ CatchCritical \/ Rethrow

Next == Begin \/ StrategicSettled \/ DetailSettled \/ EndOfRun

Spec == Init /\ [][Next]_vars

(***************************************************************************)
(* SpecFaults: runs of analyzeWithBatching on the outcomes a stage's call  *)
(* can have beyond a well-formed response: an error raised by callAI       *)
(* (transient after the retries, or fatal), an empty or undecodable text,  *)
(* JSON of another shape, topics and buckets the prompt does not foresee.  *)
(* Both analyzeWithBatching functions of unnamed/part_001 are run: the one *)
(* that stamps issue categories (lines 246-566) and the one that validates *)
(* (lines 813-1036).                                                       *)
(***************************************************************************)
S_billing == <<"b","i","l","l","i","n","g">>
S_Billing_Errors == <<"B","i","l","l","i","n","g"," ","E","r","r","o","r","s">>

FaultRowInputs ==
    { Row(S_billing, S_unresolved, S_negative),
      Row(Capitalised(S_constructor), S_resolved, S_positive),
      Row(<<"a">>, S_user_drop_off, S_neutral) }

TransientFailure ==
    [error |-> "OpenAI API error: Rate limit reached for requests", status |-> 429]
FatalFailure ==
    [error |-> "OpenAI API error: Incorrect API key provided", status |-> 401]

\* recommendations of the two stages
StrategicRecBilling ==
    [topic |-> S_Billing_Errors, goalAlignmentScore |-> 8,
     recommendation |-> "Implement a retry of failed card payments",
     problemStatement |-> "Users cannot pay their invoices",
     examples |-> <<"card declined">>]
DetailRecFirstRow ==
    [topic |-> <<"P","a","y">>, goalAlignmentScore |-> 6,
     indices |-> <<Num(0), Num(7)>>,
     recommendation |-> "Fix the payment flow of the billing agent",
     problemStatement |-> "Payments fail without an explanation",
     examples |-> <<"payment failed">>]
DetailRecTextIndices ==
    [topic |-> <<"P","a","y">>, goalAlignmentScore |-> 6,
     nonLists |-> {"indices"},
     recommendation |-> "Fix the payment flow of the billing agent",
     problemStatement |-> "Payments fail without an explanation",
     examples |-> <<"payment failed">>]
DetailRecNumberText ==
    [topic |-> <<"P","a","y">>, goalAlignmentScore |-> 6,
     indices |-> <<Num(0)>>, nonStrings |-> {"recommendation"},
     problemStatement |-> "Payments fail without an explanation"]

StrategicFaultJson ==
    { JsonNull, JsonPrimitive,
      [nonLists |-> {"topic_assignments"}],
      [topic_assignments |-> <<JsonNull>>],
      [topic_assignments |-> <<>>, nonLists |-> {"bucket2"}],
      \* a cluster mapped to a bucket that gets no recommendation
      [topic_assignments |-> << [topic |-> S_billing, bucket |-> "2"] >>,
       bucket1 |-> <<>>, bucket2 |-> <<>>, bucket3 |-> <<>>],
      \* a cluster mapped to a bucket with a recommendation
      [topic_assignments |-> << [topic |-> S_billing, bucket |-> "2",
                                  bucket_label |-> Label2] >>,
       bucket1 |-> <<>>, bucket2 |-> <<StrategicRecBilling>>, bucket3 |-> <<>>],
      \* the issue category named by the response
      [topic_assignments |-> << [topic |-> S_billing, bucket |-> "0",
                                  issue_category |-> S_Billing_Errors],
                                [topic |-> <<"a">>, bucket |-> "3",
                                  issue_category |-> S_Billing_Errors] >>,
       bucket1 |-> <<>>, bucket2 |-> <<>>, bucket3 |-> <<>>],
      \* a bucket outside "0".."3", and an assignment without a bucket
      [topic_assignments |-> << [topic |-> S_billing, bucket |-> "4"],
                                [topic |-> <<"A", " ">>] >>,
       bucket1 |-> <<>>, bucket2 |-> <<>>, bucket3 |-> <<>>] }

DetailFaultJson ==
    { JsonNull, JsonPrimitive,
      [bucket1 |-> <<>>, nonLists |-> {"bucket2"}],
      [bucket1 |-> <<JsonNull>>, bucket2 |-> <<>>, bucket3 |-> <<>>],
      [bucket1 |-> <<DetailRecFirstRow>>, bucket2 |-> <<>>, bucket3 |-> <<>>],
      [bucket1 |-> <<>>, bucket2 |-> <<>>, bucket3 |-> <<DetailRecTextIndices>>],
      [bucket1 |-> <<>>, bucket2 |-> <<DetailRecNumberText>>, bucket3 |-> <<>>] }

FaultOutcomes(jsonValues) ==
    { TransientFailure, FatalFailure }
    \cup { [text |-> t] :
             t \in {EmptyText, MalformedText} \cup { [json |-> j] : j \in jsonValues } }

InitFaults == InitRun(SeqsUpTo(FaultRowInputs, MaxPipelineRows))

StrategicSettledFaults ==
    \E outcome \in FaultOutcomes(StrategicFaultJson) : StrategicStep(outcome)

\* the pipeline of lines 246-566
DetailSettledFaults ==
    \E outcome \in FaultOutcomes(DetailFaultJson) :
        DetailStep(outcome, TRUE, "finalise")

\* the pipeline of lines 813-1036, up to its Stage 5
DetailSettledValidating ==
    \E outcome \in FaultOutcomes(DetailFaultJson) :
        DetailStep(outcome, FALSE, "validate")

\* Stage 5: log.validationResults = runAllValidations(...)
Validate ==
    /\ pc = "validate"
    /\ LET validated ==
               runAllValidations(recommendations[1] \o recommendations[2]
                                     \o recommendations[3],
                                 categorizedRows, allClusters)
       IN IF validated.threw
          THEN /\ criticalError' = TypeError
               /\ pc' = "caught"
               /\ UNCHANGED log
          ELSE /\ log' = [log EXCEPT !.validationResults = validated.results]
               /\ pc' = "finalise"
               /\ UNCHANGED criticalError
    /\ UNCHANGED <<csvData, allClusters, failureEntry, strategicParsed,
                   detailParsed, topicToBucket, topicToLabel, categorizedRows,
                   strategicBuckets, detailBuckets, recommendations,
                   topicToIssueCategory, history, clock, funcVars, callVars>>

NextFaults ==
    \/ Begin
    \/ StrategicSettledFaults
    \/ DetailSettledFaults
    \/ DetailSettledValidating
    \/ Validate
    \/ EndOfRun

SpecFaults == InitFaults /\ [][NextFaults]_vars

(***************************************************************************)
(* SpecRetry: one callAI, for either provider.  An action is the code      *)
(* between two awaits of withRetry: an invocation of the operation up to   *)
(* its return, its raise or the setTimeout of the backoff, and the         *)
(* recursive call once the timer has fired.                                *)
(***************************************************************************)
OpenAIResponses ==
    { [content |-> "{}"], [content |-> ""] }
    \cup { [status |-> n, statusText |-> "", message |-> m] :
             n \in {400, 401, 429, 499, 500, 503, 599, 600},
             m \in {"Incorrect API key provided",
                    "Rate limit reached for requests",
                    "You exceeded your current quota"} }
    \cup { [status |-> 500, statusText |-> "Internal Server Error"],
           [status |-> 404, statusText |-> "Not Found", message |-> ""],
           [status |-> 502, statusText |-> "Bad Gateway", notJson |-> TRUE],
           [network |-> "Failed to fetch"] }

GeminiResponses ==
    { [text |-> "{}"], [text |-> ""] }
    \cup { [sdkMessage |-> "got status: 429 Too Many Requests", sdkStatus |-> 429],
           [sdkMessage |-> "ResourceExhausted", sdkStatus |-> 429],
           [sdkMessage |-> "You exceeded your current quota", sdkStatus |-> 429],
           [sdkMessage |-> "Resource has been exhausted", sdkStatus |-> 429],
           [sdkMessage |-> "The model is overloaded", sdkStatus |-> 503],
           [sdkMessage |-> "Internal error encountered", sdkStatus |-> 500],
           [sdkMessage |-> "API key not valid", sdkStatus |-> 400],
           [sdkMessage |-> "fetch failed"],
           [sdkStatus |-> 500] }

Responses(p) == IF p = "openai" THEN OpenAIResponses ELSE GeminiResponses

InitRetry ==
    /\ pc = "attempt"
    /\ provider \in {"openai", "gemini"}
    /\ retries = DefaultRetries
    /\ delayMs = DefaultDelayMs
    /\ attempts = 0
    /\ waits = <<>>
    /\ response = Idle
    /\ callResult = Idle
    /\ csvData = Idle /\ topN = 0 /\ allClusters = Idle /\ failureEntry = Idle
    /\ strategic = Idle /\ detail = Idle /\ merged = Idle
    /\ pbArgs = Idle /\ pbResult = Idle
    /\ strategicParsed = Idle /\ detailParsed = Idle
    /\ topicToBucket = Idle /\ topicToLabel = Idle /\ categorizedRows = Idle
    /\ strategicBuckets = Idle /\ detailBuckets = Idle /\ recommendations = Idle
    /\ IdleRun

pipelineVars ==
    <<csvData, allClusters, failureEntry, strategicParsed, detailParsed,
      topicToBucket, topicToLabel, categorizedRows, strategicBuckets,
      detailBuckets, recommendations, runVars, funcVars>>

\* return await operation(), and the catch of withRetry
Attempt ==
    /\ pc = "attempt"
    /\ \E r \in Responses(provider) :
         LET settled == Operation(provider, r)
         IN /\ response' = r
            /\ attempts' = attempts + 1
            /\ IF "text" \in DOMAIN settled
               THEN /\ callResult' = settled
                    /\ pc' = "returned"
                    /\ UNCHANGED waits
               ELSE IF retries > 0 /\ ShouldRetry(settled.error)
               THEN /\ waits' = Append(waits, delayMs)
                    /\ pc' = "backoff"
                    /\ UNCHANGED callResult
               ELSE /\ callResult' = settled
                    /\ pc' = "raised"
                    /\ UNCHANGED waits
    /\ UNCHANGED <<provider, retries, delayMs, pipelineVars>>

\* the timer fires: return withRetry(operation, retries - 1, delayMs * 2)
TimerFired ==
    /\ pc = "backoff"
    /\ retries' = retries - 1
    /\ delayMs' = delayMs * 2
    /\ pc' = "attempt"
    /\ UNCHANGED <<provider, attempts, waits, response, callResult, pipelineVars>>

NextRetry == Attempt \/ TimerFired

SpecRetry == InitRetry /\ [][NextRetry]_vars

(***************************************************************************)
(* SpecHistory: runs finalised one after the other against the history     *)
(* store of the browser (localStorage, key bot_analysis_history).  The     *)
(* store starts with the entries of earlier runs, at most HistoryCap of     *)
(* them; an action is the finaliseLog of one run, with its saveToHistory.   *)
(* The store is taken to hold a JSON list and to accept the write.          *)
(***************************************************************************)
MaxRuns == 3

\* the store after n earlier runs, the k-th of them finalised at time k - 1
StoredHistory(n) ==
    [k \in 1..n |->
        HistoricalEntry(finaliseLog(createLog("K3J9X2A", k - 1), k - 1))]

\* the log of a run that reaches finaliseLog at time now: of csvAfterFilter
\* rows, all of them (try block) or none of them (catch block) accounted for
RunLogs(now) ==
    UNION { { [createLog(runId, now) EXCEPT
                   !.csvTotalRows = n, !.csvAfterFilter = n,
                   !.rowsAccountedFor = a, !.bucket0Count = a] :
                runId \in RunIds, a \in {0, n} } :
            n \in 0..MaxPipelineRows }

InitHistory ==
    /\ pc = "finalise"
    /\ \E n \in 0..HistoryCap : history = StoredHistory(n)
    /\ clock = HistoryCap
    /\ log = Idle
    /\ topicToIssueCategory = Idle /\ criticalError = Idle
    /\ csvData = Idle /\ topN = 0 /\ allClusters = Idle /\ failureEntry = Idle
    /\ strategic = Idle /\ detail = Idle /\ merged = Idle
    /\ pbArgs = Idle /\ pbResult = Idle
    /\ strategicParsed = Idle /\ detailParsed = Idle
    /\ topicToBucket = Idle /\ topicToLabel = Idle /\ categorizedRows = Idle
    /\ strategicBuckets = Idle /\ detailBuckets = Idle /\ recommendations = Idle
    /\ IdleCall

\* finaliseLog(log) of one run
FinaliseRun ==
    /\ pc = "finalise"
    /\ clock < HistoryCap + MaxRuns
    /\ \E l \in RunLogs(clock) :
         /\ log' = finaliseLog(l, clock)
         /\ history' = saveToHistory(history, log')
    /\ clock' = clock + 1
    /\ UNCHANGED <<pc, csvData, allClusters, failureEntry, strategicParsed,
                   detailParsed, topicToBucket, topicToLabel, categorizedRows,
                   strategicBuckets, detailBuckets, recommendations,
                   topicToIssueCategory, criticalError, funcVars, callVars>>

NextHistory == FinaliseRun

SpecHistory == InitHistory /\ [][NextHistory]_vars

(***************************************************************************)
(* SpecIssueCategory: runs of the analyzeWithBatching of lines 246-566 on   *)
(* responses whose topics are made of words, so that every strategy of     *)
(* buildIssueCategoryMap is taken: the issue_category of the response, a   *)
(* recommendation whose indices cover the topic, the keyword score, and    *)
(* the first recommendation of the bucket.                                 *)
(***************************************************************************)
T_Billing_Error == Chars("Billing Error")
T_login == Chars("login")
T_Billing == Chars("Billing")
T_Error_Billing_Page == Chars("Error Billing Page")
T_Login_Flow == Chars("Login Flow")
T_Refund_Policy == Chars("Refund Policy")

IssueRowInputs ==
    { Row(T_Billing_Error, S_unresolved, S_negative),
      Row(T_login, S_user_drop_off, S_neutral),
      Row(Capitalised(S_constructor), S_unresolved, S_neutral) }

IssueRec(topic, score, indices) ==
    [topic |-> topic, goalAlignmentScore |-> score, indices |-> indices,
     recommendation |-> "Review the flow", problemStatement |-> "Users give up",
     examples |-> <<"it failed">>]

StrategicRecBillingOnly ==
    [topic |-> T_Billing, goalAlignmentScore |-> 8,
     recommendation |-> "Review the flow", problemStatement |-> "Users give up",
     examples |-> <<"it failed">>]

IssueStrategicJson ==
    { JsonNull,
      \* the response names the issue category
      [topic_assignments |-> << [topic |-> T_Billing_Error, bucket |-> "2",
                                  bucket_label |-> Label2,
                                  issue_category |-> T_Refund_Policy] >>,
       bucket1 |-> <<>>, bucket2 |-> <<StrategicRecBillingOnly>>, bucket3 |-> <<>>],
      \* two topics of one bucket
      [topic_assignments |-> << [topic |-> T_Billing_Error, bucket |-> "2",
                                  bucket_label |-> Label2],
                                [topic |-> T_login, bucket |-> "2",
                                  bucket_label |-> Label2] >>,
       bucket1 |-> <<>>, bucket2 |-> <<StrategicRecBillingOnly>>, bucket3 |-> <<>>],
      \* topics of two buckets, one of them without a Stage-A recommendation
      [topic_assignments |-> << [topic |-> S_constructor, bucket |-> "2",
                                  bucket_label |-> Label2],
                                [topic |-> T_login, bucket |-> "3",
                                  bucket_label |-> Label3] >>,
       bucket1 |-> <<>>, bucket2 |-> <<StrategicRecBillingOnly>>, bucket3 |-> <<>>] }

IssueDetailJson ==
    { [bucket1 |-> <<>>, bucket2 |-> <<>>, bucket3 |-> <<>>],
      [bucket1 |-> <<>>,
       bucket2 |-> <<IssueRec(T_Error_Billing_Page, 6, <<Num(1)>>)>>,
       bucket3 |-> <<>>],
      [bucket1 |-> <<>>,
       bucket2 |-> <<IssueRec(T_Login_Flow, 6, <<Num(0)>>)>>,
       bucket3 |-> <<>>],
      [bucket1 |-> <<>>, bucket2 |-> <<>>,
       bucket3 |-> <<IssueRec(T_Login_Flow, 7, <<Num(0)>>)>>],
      [bucket1 |-> <<IssueRec(T_Login_Flow, 7, <<Num(1)>>)>>,
       bucket2 |-> <<IssueRec(T_Error_Billing_Page, 6, <<>>)>>,
       bucket3 |-> <<>>] }

IssueOutcomes(jsonValues) ==
    { TransientFailure } \cup { [text |-> [json |-> j]] : j \in jsonValues }

InitIssueCategory == InitRun(SeqsUpTo(IssueRowInputs, MaxPipelineRows))

StrategicSettledIssue ==
    \E outcome \in IssueOutcomes(IssueStrategicJson) : StrategicStep(outcome)

DetailSettledIssue ==
    \E outcome \in IssueOutcomes(IssueDetailJson) :
        DetailStep(outcome, TRUE, "finalise")

NextIssueCategory ==
    \/ Begin
    \/ StrategicSettledIssue
    \/ DetailSettledIssue
    \/ EndOfRun

SpecIssueCategory == InitIssueCategory /\ [][NextIssueCategory]_vars

(***************************************************************************)
(* SpecConsistency: runs of the analyzeWithBatching of lines 813-1036, the *)
(* one that validates, on rows whose topics differ in casing and in        *)
(* surrounding white space.                                                *)
(***************************************************************************)
ConsistencyRowInputs ==
    { Row(Padded(Capitalised(S_billing)), S_unresolved, S_negative),
      Row(UpperCased(T_login), S_unresolved, S_negative),
      Row(S_billing, S_resolved, S_positive) }

ConsistencyStrategicJson ==
    { JsonNull,
      [topic_assignments |-> <<>>,
       bucket1 |-> <<>>, bucket2 |-> <<>>, bucket3 |-> <<>>],
      [topic_assignments |-> << [topic |-> S_billing, bucket |-> "2",
                                  bucket_label |-> Label2],
                                [topic |-> T_login, bucket |-> "0"] >>,
       bucket1 |-> <<>>, bucket2 |-> <<StrategicRecBilling>>, bucket3 |-> <<>>] }

ConsistencyDetailJson ==
    { [bucket1 |-> <<>>, bucket2 |-> <<>>, bucket3 |-> <<>>],
      [bucket1 |-> <<DetailRecFirstRow>>, bucket2 |-> <<>>, bucket3 |-> <<>>] }

InitConsistency == InitRun(SeqsUpTo(ConsistencyRowInputs, MaxPipelineRows))

StrategicSettledConsistency ==
    \E outcome \in IssueOutcomes(ConsistencyStrategicJson) : StrategicStep(outcome)

DetailSettledConsistency ==
    \E outcome \in IssueOutcomes(ConsistencyDetailJson) :
        DetailStep(outcome, FALSE, "validate")

NextConsistency ==
    \/ Begin
    \/ StrategicSettledConsistency
    \/ DetailSettledConsistency
    \/ Validate
    \/ EndOfRun

SpecConsistency == InitConsistency /\ [][NextConsistency]_vars

(***************************************************************************)
(* Properties.                                                             *)
(***************************************************************************)
RowIndexSet == 0..(Len(csvData) - 1)
RowAt(idx) == csvData[idx + 1]

\* the trimmed, lower-cased form of a topic string
NormalisedTopic(t) == toLowerCase(trim(t))

ClusterHolds(c, idx) ==
    \E k \in 1..Len(allClusters[c].row_indices) :
        allClusters[c].row_indices[k] = idx

\* C1: the row_indices of the clusters returned by buildClusterSummaries
\* partition [0, row_count): every listed index is a row index, every row
\* index is listed exactly once over all clusters, and a cluster lists a row
\* exactly when the cluster's key is the row's trimmed, lower-cased topic.
Thm_C1_ClusterPartition ==
    pc = "clustered" =>
        /\ \A c \in 1..Len(allClusters) :
             \A k \in 1..Len(allClusters[c].row_indices) :
                 allClusters[c].row_indices[k] \in RowIndexSet
        /\ \A idx \in RowIndexSet :
             Cardinality({ ck \in { <<c, k>> : c \in 1..Len(allClusters),
                                               k \in 1..Len(csvData) } :
                             /\ ck[2] <= Len(allClusters[ck[1]].row_indices)
                             /\ allClusters[ck[1]].row_indices[ck[2]] = idx }) = 1
        /\ \A idx \in RowIndexSet : \A c \in 1..Len(allClusters) :
             ClusterHolds(c, idx) <=>
                 NormalisedTopic(allClusters[c].topic)
                     = NormalisedTopic(OrEmpty(RowAt(idx), "TOPIC"))

\* rows with differently written topics share a cluster, beside another cluster
Wit_C1_ClusterPartition ==
    /\ pc = "clustered"
    /\ Len(allClusters) >= 2
    /\ \E c \in 1..Len(allClusters) : \E i, j \in RowIndexSet :
         /\ ClusterHolds(c, i) /\ ClusterHolds(c, j)
         /\ OrEmpty(RowAt(i), "TOPIC") # OrEmpty(RowAt(j), "TOPIC")

\* the rows of the cluster with topic t, and those among them with a status
MembersOf(t) ==
    { idx \in RowIndexSet :
        NormalisedTopic(OrEmpty(RowAt(idx), "TOPIC")) = NormalisedTopic(t) }
WithStatus(members, status) ==
    { idx \in members : StatusOf(RowAt(idx)) = status }
WithSentiment(members, sentiment) ==
    { idx \in members : SentimentOf(RowAt(idx)) = sentiment }

\* C2: for every cluster, failure_rate = (unresolved + user_drop_off) / total
\* and negative_rate = negative_sentiment / total, the counts being those of
\* the cluster's rows with that status or sentiment, and both rates are in
\* [0, 1].
Thm_C2_ClusterRates ==
    pc = "clustered" =>
        \A c \in 1..Len(allClusters) :
            LET cl == allClusters[c]
                members == MembersOf(cl.topic)
                total == Cardinality(members)
                failing == Cardinality(WithStatus(members, S_unresolved))
                           + Cardinality(WithStatus(members, S_user_drop_off))
                negative == Cardinality(WithSentiment(members, S_negative))
            IN /\ total > 0 /\ cl.total = total
               /\ cl.failure_rate.den > 0 /\ cl.negative_rate.den > 0
               /\ cl.failure_rate.num * total = failing * cl.failure_rate.den
               /\ cl.negative_rate.num * total = negative * cl.negative_rate.den
               /\ 0 <= cl.failure_rate.num
               /\ cl.failure_rate.num <= cl.failure_rate.den
               /\ 0 <= cl.negative_rate.num
               /\ cl.negative_rate.num <= cl.negative_rate.den

\* a cluster with unresolved, drop-off and negative rows and a rate inside (0,1)
Wit_C2_ClusterRates ==
    /\ pc = "clustered"
    /\ \E c \in 1..Len(allClusters) :
         /\ allClusters[c].unresolved > 0
         /\ allClusters[c].user_drop_off > 0
         /\ allClusters[c].negative_sentiment > 0
         /\ allClusters[c].failure_rate.num < allClusters[c].failure_rate.den
         /\ allClusters[c].negative_rate.num < allClusters[c].negative_rate.den

\* rate a >= rate b
RateAtLeast(a, b) == a.num * b.den >= b.num * a.den

\* C3: the list returned by buildClusterSummaries is sorted non-increasing by
\* failure_rate; the 10-row scenario yields exactly 2 clusters with login_issue
\* (failure_rate 4/6) first; empty input yields an empty list.
Thm_C3_ClustersSorted ==
    pc = "clustered" =>
        /\ \A p, q \in 1..Len(allClusters) :
             p < q => RateAtLeast(allClusters[p].failure_rate,
                                  allClusters[q].failure_rate)
        /\ csvData \in ScenarioRows =>
             /\ Len(allClusters) = 2
             /\ allClusters[1].topic = S_login_issue
             /\ allClusters[1].failure_rate.num * 6
                    = 4 * allClusters[1].failure_rate.den
             /\ allClusters[2].topic = S_refund
        /\ csvData = <<>> => allClusters = <<>>

\* the scenario with a refund row first: the sort has to move login_issue up
Wit_C3_ClustersSorted ==
    /\ pc = "clustered"
    /\ csvData \in ScenarioRows
    /\ csvData[1].TOPIC = S_refund
    /\ allClusters[1].topic = S_login_issue

Qualifies(row) ==
    \/ SentimentOf(row) = S_negative
    \/ StatusOf(row) = S_unresolved
    \/ StatusOf(row) = S_user_drop_off

QualifyingIndices == { idx \in RowIndexSet : Qualifies(RowAt(idx)) }

\* C4: getFailureRows returns at most topN entries, no two with the same
\* originalIndex, and each entry's row is the input row at originalIndex and
\* qualifies.
Thm_C4_FailureRowsCapped ==
    pc = "sampled" =>
        /\ Len(failureEntry) <= topN
        /\ \A p, q \in 1..Len(failureEntry) :
             p # q => failureEntry[p].originalIndex # failureEntry[q].originalIndex
        /\ \A p \in 1..Len(failureEntry) :
             /\ failureEntry[p].originalIndex \in RowIndexSet
             /\ failureEntry[p].row = RowAt(failureEntry[p].originalIndex)
             /\ Qualifies(failureEntry[p].row)

\* more rows qualify than the cap of at least 2 allows, and the cap is reached
Wit_C4_FailureRowsCapped ==
    /\ pc = "sampled"
    /\ topN >= 2
    /\ Cardinality(QualifyingIndices) > topN
    /\ Len(failureEntry) = topN

\* the priority class of a row: 0 negative sentiment, 1 unresolved, 2 drop-off
PriorityClass(row) ==
    IF SentimentOf(row) = S_negative THEN 0
    ELSE IF StatusOf(row) = S_unresolved THEN 1 ELSE 2

ReturnedIndices ==
    { failureEntry[p].originalIndex : p \in 1..Len(failureEntry) }

\* C5: when more than topN rows qualify, getFailureRows returns topN rows, no
\* omitted qualifying row has a strictly higher priority class than a returned
\* row, and within one class rows are returned, and cut off, in input order.
Thm_C5_FailureRowsPriority ==
    (pc = "sampled" /\ Cardinality(QualifyingIndices) > topN) =>
        /\ Len(failureEntry) = topN
        /\ \A i \in QualifyingIndices \ ReturnedIndices : \A j \in ReturnedIndices :
             /\ PriorityClass(RowAt(i)) >= PriorityClass(RowAt(j))
             /\ PriorityClass(RowAt(i)) = PriorityClass(RowAt(j)) => j < i
        /\ \A p, q \in 1..Len(failureEntry) :
             (p < q /\ PriorityClass(failureEntry[p].row)
                          = PriorityClass(failureEntry[q].row))
                 => failureEntry[p].originalIndex < failureEntry[q].originalIndex

\* the cut falls inside a class, after a row of a higher class that came later
\* in the input than a returned row's omitted classmate
Wit_C5_FailureRowsPriority ==
    /\ pc = "sampled"
    /\ Cardinality(QualifyingIndices) > topN
    /\ \E i \in QualifyingIndices \ ReturnedIndices : \E j, h \in ReturnedIndices :
         /\ PriorityClass(RowAt(i)) = PriorityClass(RowAt(j))
         /\ PriorityClass(RowAt(h)) < PriorityClass(RowAt(i))
         /\ h > i

MergeInput == strategic \o detail

NormalisedRecTopic(rec) == NormalisedTopic(OrEmpty(rec, "topic"))

\* C6: the list returned by mergeRecommendations holds no two recommendations
\* whose lower-cased, trimmed topics are equal.
Thm_C6_MergeUniqueTopics ==
    pc = "merged" =>
        \A p, q \in 1..Len(merged) :
            p # q => NormalisedRecTopic(merged[p]) # NormalisedRecTopic(merged[q])

\* two inputs whose topics differ as written but not once normalised
Wit_C6_MergeUniqueTopics ==
    /\ pc = "merged"
    /\ \E i, j \in 1..Len(MergeInput) :
         /\ OrEmpty(MergeInput[i], "topic") # OrEmpty(MergeInput[j], "topic")
         /\ NormalisedRecTopic(MergeInput[i]) = NormalisedRecTopic(MergeInput[j])
    /\ Len(merged) < Len(MergeInput)

\* C7: every recommendation kept by mergeRecommendations is one of the inputs,
\* and for every input the kept recommendation of its normalised topic has a
\* goal-alignment score at least as high: among inputs sharing a topic with
\* different scores the kept one has the highest score, whatever its stage or
\* position.
Thm_C7_MergeKeepsHighest ==
    pc = "merged" =>
        /\ \A p \in 1..Len(merged) :
             \E i \in 1..Len(MergeInput) : MergeInput[i] = merged[p]
        /\ \A i \in 1..Len(MergeInput) :
             \E p \in 1..Len(merged) :
                 /\ NormalisedRecTopic(merged[p]) = NormalisedRecTopic(MergeInput[i])
                 /\ ScoreOf(merged[p]) >= ScoreOf(MergeInput[i])

\* a Stage-B input outscores the Stage-A input of its topic and is kept, and
\* a Stage-A input outscores the Stage-B input of another topic and is kept
Wit_C7_MergeKeepsHighest ==
    /\ pc = "merged"
    /\ \E s \in 1..Len(strategic) : \E d \in 1..Len(detail) :
         /\ NormalisedRecTopic(strategic[s]) = NormalisedRecTopic(detail[d])
         /\ ScoreOf(detail[d]) > ScoreOf(strategic[s])
         /\ \E p \in 1..Len(merged) : merged[p] = detail[d]
    /\ \E s \in 1..Len(strategic) : \E d \in 1..Len(detail) :
         /\ NormalisedRecTopic(strategic[s]) = NormalisedRecTopic(detail[d])
         /\ ScoreOf(detail[d]) < ScoreOf(strategic[s])
         /\ \E p \in 1..Len(merged) : merged[p] = strategic[s]

\* a Stage-A and a Stage-B input of one topic tie at the topic's highest score
TieAtTop(s, d) ==
    /\ NormalisedRecTopic(strategic[s]) = NormalisedRecTopic(detail[d])
    /\ ScoreOf(strategic[s]) = ScoreOf(detail[d])
    /\ \A i \in 1..Len(MergeInput) :
         NormalisedRecTopic(MergeInput[i]) = NormalisedRecTopic(detail[d])
             => ScoreOf(MergeInput[i]) <= ScoreOf(detail[d])

KeptFor(rec) ==
    { merged[p] : p \in { q \in 1..Len(merged) :
                            NormalisedRecTopic(merged[q]) = NormalisedRecTopic(rec) } }

IsDetailRec(rec) == \E d \in 1..Len(detail) : detail[d] = rec

\* C8 as stated: on a tie between a Stage-A and a Stage-B recommendation of
\* one topic, mergeRecommendations keeps the Stage-B (later-inserted) one.
Orig_C8_TieKeepsDetail ==
    pc = "merged" =>
        \A s \in 1..Len(strategic) : \A d \in 1..Len(detail) :
            TieAtTop(s, d) => \A m \in KeptFor(detail[d]) : IsDetailRec(m)

\* C8 amended: on a tie between a Stage-A and a Stage-B recommendation of one
\* normalised topic at that topic's highest score, mergeRecommendations keeps
\* the earlier-inserted one: the first Stage-A recommendation of that topic
\* with that score.
Thm_C8_TieKeepsStrategic ==
    pc = "merged" =>
        \A s \in 1..Len(strategic) : \A d \in 1..Len(detail) :
            TieAtTop(s, d) =>
                LET first == CHOOSE i \in 1..Len(strategic) :
                        /\ NormalisedRecTopic(strategic[i])
                               = NormalisedRecTopic(detail[d])
                        /\ ScoreOf(strategic[i]) = ScoreOf(detail[d])
                        /\ \A j \in 1..(i - 1) :
                             ~ /\ NormalisedRecTopic(strategic[j])
                                      = NormalisedRecTopic(detail[d])
                               /\ ScoreOf(strategic[j]) = ScoreOf(detail[d])
                IN KeptFor(detail[d]) = { strategic[first] }

\* a tie at the top between the stages, with the Stage-A one kept
Wit_C8_TieKeepsStrategic ==
    /\ pc = "merged"
    /\ \E s \in 1..Len(strategic) : \E d \in 1..Len(detail) :
         /\ TieAtTop(s, d)
         /\ ScoreOf(detail[d]) > 0
         /\ \E p \in 1..Len(merged) : merged[p] = strategic[s]

\* the recommendations of bucket b ("1".."3") in a parsed stage response
ParsedBucket(parsed, b) ==
    OrEmptyList(FieldOf(parsed,
        IF b = "1" THEN "bucket1" ELSE IF b = "2" THEN "bucket2" ELSE "bucket3"))

\* the JSON value v is the number idx
IsNumber(v, idx) == "num" \in DOMAIN v /\ v.num = idx * v.den

\* the recommendation lists row index idx
Lists(rec, idx) ==
    /\ "indices" \in DOMAIN rec
    /\ \E k \in 1..Len(rec.indices) : IsNumber(rec.indices[k], idx)

\* the buckets in which a recommendation of the parsed response lists idx
ListingBuckets(parsed, idx) ==
    { b \in {"1", "2", "3"} :
        \E k \in 1..Len(ParsedBucket(parsed, b)) :
            Lists(ParsedBucket(parsed, b)[k], idx) }

\* C9: detail overrides cluster.  At the end of a run, every row whose
\* normalised topic Stage A maps to a bucket and whose index a Stage-B
\* recommendation lists has the bucket and the label of a Stage-B
\* recommendation that lists it.
Thm_C9_DetailOverridesCluster ==
    pc = "done" =>
        \A idx \in RowIndexSet :
            (/\ NormalisedTopic(OrEmpty(RowAt(idx), "TOPIC")) \in DOMAIN topicToBucket
             /\ ListingBuckets(detailParsed, idx) # {})
            => \E b \in ListingBuckets(detailParsed, idx) :
                   /\ categorizedRows[idx + 1].BUCKET = b
                   /\ categorizedRows[idx + 1].BUCKET_LABEL = BucketLabel(b)

\* a row whose cluster is mapped to "2", which a Stage-A recommendation of
\* bucket "2" lists too, and which only Stage-B recommendations of bucket "1"
\* list, ends in "1"
Wit_C9_DetailOverridesCluster ==
    /\ pc = "done"
    /\ \E idx \in RowIndexSet :
         LET key == NormalisedTopic(OrEmpty(RowAt(idx), "TOPIC"))
         IN /\ key \in DOMAIN topicToBucket
            /\ topicToBucket[key] = "2"
            /\ ListingBuckets(strategicParsed, idx) = {"2"}
            /\ ListingBuckets(detailParsed, idx) = {"1"}
            /\ categorizedRows[idx + 1].BUCKET = "1"
            /\ categorizedRows[idx + 1].BUCKET_LABEL = Label1

ProcessedRows == Len(pbArgs.rows)

\* the indices of rec that are integers in [0, row_count), in their order
RemainingIndices(rec) ==
    LET InRange(v) == \E idx \in 0..(ProcessedRows - 1) : IsNumber(v, idx)
    IN SelectSeq(rec.indices, InRange)

\* what processBucket is to make of one recommendation
ExpectedRec(rec) ==
    IF "indices" \in DOMAIN rec
    THEN [f \in DOMAIN rec \cup {"count"} |->
             IF f = "indices" THEN RemainingIndices(rec)
             ELSE IF f = "count" THEN Len(RemainingIndices(rec))
             ELSE rec[f]]
    ELSE rec

SamePosition(a, b, x) ==
    Cardinality({ j \in 1..Len(a) : a[j] = x })
        = Cardinality({ j \in 1..Len(b) : b[j] = x })

\* C10: for a list of recommendations, processBucket (of the staged pipeline
\* and of analyzeWithOpenAI) raises no exception, returns the recommendations
\* with every index that is not an integer in [0, row_count) removed and count
\* set to the number of remaining indices, stamps the bucket and its label on
\* the rows at the remaining indices and leaves every other row as it was.
Thm_C10_ProcessBucketFilters ==
    (/\ pc \in {"processed", "processedOpenAI"}
     /\ "value" \in DOMAIN pbArgs.recs
     /\ \A i \in 1..Len(pbArgs.recs.value) : pbArgs.recs.value[i] # JsonNull)
    => LET recsIn == pbArgs.recs.value
           expected == [i \in 1..Len(recsIn) |-> ExpectedRec(recsIn[i])]
           stamped == { idx \in 0..(ProcessedRows - 1) :
                          \E i \in 1..Len(recsIn) : Lists(recsIn[i], idx) }
       IN /\ ~pbResult.threw
          /\ Len(pbResult.recs) = Len(recsIn)
          /\ \A i \in 1..Len(expected) :
               SamePosition(pbResult.recs, expected, expected[i])
          /\ Len(pbResult.rows) = ProcessedRows
          /\ \A idx \in 0..(ProcessedRows - 1) :
               IF idx \in stamped
               THEN /\ pbResult.rows[idx + 1].BUCKET = pbArgs.bucketId
                    /\ pbResult.rows[idx + 1].BUCKET_LABEL
                           = BucketLabel(pbArgs.bucketId)
                    /\ pbResult.rows[idx + 1].APPROVAL_STATUS
                           = pbArgs.rows[idx + 1].APPROVAL_STATUS
                    /\ pc = "processed" =>
                           pbResult.rows[idx + 1].TOPIC = pbArgs.rows[idx + 1].TOPIC
               ELSE pbResult.rows[idx + 1] = pbArgs.rows[idx + 1]

\* index 999 on the 10-row dataset: dropped, count 2 for the two that remain
Wit_C10_ProcessBucketFilters ==
    /\ pc = "processed"
    /\ pbArgs.rows = TenRows
    /\ "value" \in DOMAIN pbArgs.recs
    /\ \E i \in 1..Len(pbArgs.recs.value) :
         /\ pbArgs.recs.value[i] # JsonNull
         /\ "indices" \in DOMAIN pbArgs.recs.value[i]
         /\ \E k \in 1..Len(pbArgs.recs.value[i].indices) :
              pbArgs.recs.value[i].indices[k] = Num(999)
    /\ ~pbResult.threw
    /\ \E j \in 1..Len(pbResult.recs) :
         /\ "indices" \in DOMAIN pbResult.recs[j]
         /\ pbResult.recs[j].indices = <<Num(1), Num(0)>>
         /\ pbResult.recs[j].count = 2
    /\ pbResult.rows[1].BUCKET = pbArgs.bucketId
    /\ pbResult.rows[3].BUCKET = "0"

(***************************************************************************)
(* Properties of the staged run under failures and malformed responses.    *)
(***************************************************************************)
\* the run has returned its AnalysisResult / has raised to its caller
Returned == pc = "done"
Raised == pc = "threw"

\* the normalised topics Stage A's topic_assignments name
AssignedTopics ==
    { NormalisedTopic(OrEmpty(OrEmpty(strategicParsed, "topic_assignments")[i],
                              "topic")) :
        i \in 1..Len(OrEmpty(strategicParsed, "topic_assignments")) }

\* no recommendation of either stage lists row index idx
Unreferenced(idx) ==
    /\ ListingBuckets(strategicParsed, idx) = {}
    /\ ListingBuckets(detailParsed, idx) = {}

\* C11: unmapped topics keep bucket "0".  At the end of a run, every row
\* whose normalised topic Stage A's topic_assignments do not name and
\* which no recommendation's index list references has bucket "0" and the
\* label "Resolved / Out of Scope".
Orig_C11_UnmappedKeepZero ==
    Returned =>
        \A idx \in RowIndexSet :
            (/\ NormalisedTopic(OrEmpty(RowAt(idx), "TOPIC")) \notin AssignedTopics
             /\ Unreferenced(idx))
            => /\ categorizedRows[idx + 1].BUCKET = "0"
               /\ categorizedRows[idx + 1].BUCKET_LABEL = DefaultLabel

\* the batch summary entry of a stage (1: Stage A, 2: Stage B) records a
\* call that failed on a transient error once its retries were used up
StageFailed(n) ==
    /\ pc \notin {"start", "strategic"}
    /\ Len(log.batchSummary) >= n
    /\ ~log.batchSummary[n].success
    /\ log.batchSummary[n].errorMessage = TransientFailure.error

\* the rows a recommendation of Stage B lists carry the bucket and the label
\* of such a recommendation
DetailApplied ==
    \A idx \in RowIndexSet :
        ListingBuckets(detailParsed, idx) # {}
        => \E b \in ListingBuckets(detailParsed, idx) :
               /\ categorizedRows[idx + 1].BUCKET = b
               /\ categorizedRows[idx + 1].BUCKET_LABEL = BucketLabel(b)

\* what a failed stage leaves behind: its default structure and its error
\* message in the log
StageADegraded ==
    /\ strategicParsed = StrategicDefault
    /\ topicToBucket = <<>> /\ topicToLabel = <<>>
    /\ \E i \in 1..Len(log.errors) :
           log.errors[i] = StageAPrefix \o log.batchSummary[1].errorMessage
StageBDegraded ==
    /\ detailParsed = DetailDefault
    /\ \E i \in 1..Len(log.errors) :
           log.errors[i] = StageBPrefix \o log.batchSummary[2].errorMessage

\* C12: a stage's failure is non-fatal.  In every run in which the call of
\* a stage failed, no exception is raised, the stage contributes its empty
\* structure, its error message is in the log's errors and, at the end of
\* the run, the rows Stage B's recommendations list carry Stage B's buckets.
Orig_C12_StageFailureNonFatal ==
    /\ StageFailed(1) =>
          /\ StageADegraded
          /\ pc \notin {"caught", "rethrow", "threw"}
          /\ Returned => DetailApplied
    /\ StageFailed(2) =>
          /\ StageBDegraded
          /\ pc \notin {"caught", "rethrow", "threw"}

\* C13: a malformed response never aborts the run.  Whatever text the
\* calls of the stages return, the run raises no exception.
Orig_C13_MalformedNeverAborts == ~Raised

\* the error messages of the batch summary
StageErrors ==
    { log.batchSummary[i].errorMessage :
        i \in { j \in 1..Len(log.batchSummary) :
                  "errorMessage" \in DOMAIN log.batchSummary[j] } }

\* C14: a fatal provider error aborts the run.  No run in which the call
\* of a stage ended in a non-retryable provider error returns an
\* AnalysisResult; the run raises that error.
Orig_C14_FatalErrorPropagates ==
    /\ Returned => FatalFailure.error \notin StageErrors
    /\ (pc \notin {"start", "strategic"} /\ FatalFailure.error \in StageErrors)
           => pc \in {"caught", "rethrow", "threw"}

(***************************************************************************)
(* Properties of a stage call under withRetry.                             *)
(***************************************************************************)
\* the HTTP status and the message of what the provider answered
HttpStatusOf(r) ==
    IF "status" \in DOMAIN r THEN r.status
    ELSE IF "sdkStatus" \in DOMAIN r THEN r.sdkStatus
    ELSE 0
ErrorMessageOf(r) ==
    IF "message" \in DOMAIN r THEN r.message
    ELSE IF "sdkMessage" \in DOMAIN r THEN r.sdkMessage
    ELSE ""

\* the provider's answer is a transient signal: HTTP 429, a 5xx status, or a
\* rate-limit or quota message
TransientSignal(r) ==
    \/ HttpStatusOf(r) = 429
    \/ HttpStatusOf(r) >= 500 /\ HttpStatusOf(r) < 600
    \/ Includes(ErrorMessageOf(r), "Rate limit")
    \/ Includes(ErrorMessageOf(r), "quota")

\* the waits of the retry policy, in milliseconds
PolicyWaits == <<DefaultDelayMs, 2 * DefaultDelayMs, 4 * DefaultDelayMs>>

\* C15: the retry policy, for both providers.  A call makes at most four
\* attempts; the waits before the retries are 1, 2 and 4 time units; only
\* an error that is a transient signal (HTTP 429, a 5xx status, a
\* rate-limit or quota message) is followed by a further attempt; and a
\* call that ends in an error that is a transient signal has used all four
\* attempts.
Orig_C15_RetryPolicy ==
    /\ attempts <= DefaultRetries + 1
    /\ Len(waits) <= DefaultRetries
    /\ \A i \in 1..Len(waits) : waits[i] = PolicyWaits[i]
    /\ pc = "backoff" => TransientSignal(response)
    /\ (pc = "raised" /\ TransientSignal(response))
           => attempts = DefaultRetries + 1

(***************************************************************************)
(* Properties of the rows a run returns.                                   *)
(***************************************************************************)
\* the run took the pipeline of lines 246-566, which stamps issue
\* categories and has no Stage 5
IssueCategoryRun == log.validationResults = <<>>

\* C16: at the end of every run of the issue-category pipeline, a row
\* carries an ISSUE_CATEGORY if and only if its final bucket is not "0".
Orig_C16_IssueCategoryIffBucketed ==
    (Returned /\ IssueCategoryRun) =>
        \A i \in 1..Len(categorizedRows) :
            ("ISSUE_CATEGORY" \in DOMAIN categorizedRows[i])
                <=> (categorizedRows[i].BUCKET # "0")

\* the four bucket identifiers
BucketIds == {"0", "1", "2", "3"}

\* C18: after every run, whatever the responses of the two stages were, the
\* bucket of each categorized row is one of "0", "1", "2", "3".
Orig_C18_BucketInFour ==
    Returned =>
        \A i \in 1..Len(categorizedRows) : categorizedRows[i].BUCKET \in BucketIds

(***************************************************************************)
(* Properties of Stage 5 and of the run log.                               *)
(***************************************************************************)
\* the run is in, or has left, its outer catch block
Aborting == pc \in {"caught", "rethrow", "threw"}

\* the exception of an aborting run was raised after Stage 4 had produced
\* the merged recommendations, that is, by runAllValidations
ValidatorRaised == Aborting /\ recommendations # <<>>

ValidationStatuses == {"Pass", "Fail", "Warning"}

\* C19: the validator never halts the pipeline.  Whatever the merged
\* recommendations, rows and clusters are, runAllValidations raises nothing,
\* and the validation results stored in the log are four results with
\* status Pass, Fail or Warning.
Orig_C19_ValidatorNeverHalts ==
    /\ ~ValidatorRaised
    /\ (pc \notin {"start"} /\ log.validationResults # <<>>) =>
           /\ Len(log.validationResults) = 4
           /\ \A i \in 1..4 : log.validationResults[i].status \in ValidationStatuses

\* the log has been finalised: its end time is stamped
Finalised == pc # "start" /\ "endTime" \in DOMAIN log

\* finaliseLog has run, in the try block or in the catch block
AfterFinalise == pc \in {"return", "done", "rethrow", "threw"}

\* C20: the log is finalised exactly once per run, whether the run returns
\* or raises.  Until the end of the try block or the catch block the log has
\* no end time and nothing is saved to the history; from then on the end
\* time is stamped, dataLossRows is max(0, csvAfterFilter - rowsAccountedFor),
\* the history holds exactly one entry of the run; and no step changes a
\* finalised log.
Thm_C20_FinalisedOnce ==
    /\ [](~AfterFinalise => (~Finalised /\ history = <<>>))
    /\ [](AfterFinalise =>
            /\ Finalised
            /\ log.dataLossRows = Max(0, log.csvAfterFilter - log.rowsAccountedFor)
            /\ Len(history) = 1
            /\ history[1].runId = log.runId
            /\ history[1].endTime = log.endTime)
    /\ [][Finalised => log' = log]_vars

\* a run that raised, with its critical error logged, its log finalised
\* while rows were unaccounted for, and one history entry
Wit_C20_FinalisedOnce ==
    /\ Raised
    /\ Finalised
    /\ log.dataLossRows > 0
    /\ Len(log.errors) > 0
    /\ Len(history) = 1

(***************************************************************************)
(* Properties of the history store.                                        *)
(***************************************************************************)
\* a step that writes the store leaves every entry in place and adds one
AppendsOne ==
    /\ Len(history') = Len(history) + 1
    /\ SubSeq(history', 1, Len(history)) = history

AppendsAndCaps ==
    LET pushed == Append(history, HistoricalEntry(log'))
    IN history' = IF Len(pushed) > HistoryCap
                  THEN SubSeq(pushed, 2, Len(pushed)) ELSE pushed

MappedRowEndsInZero(rows, sOutcome, dOutcome) ==
    LET sParsed == safeJsonParse(RawOf(sOutcome), StrategicDefault)
        dParsed == safeJsonParse(RawOf(dOutcome), DetailDefault)
        assignments == OrEmpty(sParsed, "topic_assignments")
        toBucket == BuildTopicToBucket(assignments, 1, <<>>)
        toLabel == BuildTopicToLabel(assignments, 1, <<>>)
        applied == ApplyDetailOverrides(
                       assignBucketsByTopic(rows, toBucket, toLabel),
                       sParsed, dParsed)
    IN /\ ~AssignmentsRaise(sParsed)
       /\ ~applied.threw
       /\ \E i \in 1..Len(rows) :
              /\ RowKey(rows[i]) \in DOMAIN toBucket
              /\ toBucket[RowKey(rows[i])] # "0"
              /\ ListingBuckets(sParsed, i - 1) = {}
              /\ ListingBuckets(dParsed, i - 1) = {}
              /\ applied.rows[i].BUCKET = "0"

\* C22: there is a run in which a row whose normalised topic Stage A mapped
\* to a non-zero bucket, and which no recommendation's index list
\* references, ends in bucket "0": when a run starts, some input and some
\* pair of stage outcomes lead to such an end.
Orig_C22_MappedRowMayEndInZero ==
    pc = "start" =>
    \E rows \in SeqsUpTo(PipelineRowInputs, MaxPipelineRows)
                 \cup SeqsUpTo(FaultRowInputs, MaxPipelineRows) :
        \E sOutcome \in StageOutcomes(StrategicJson)
                         \cup FaultOutcomes(StrategicFaultJson) :
            \E dOutcome \in StageOutcomes(DetailJson)
                             \cup FaultOutcomes(DetailFaultJson) :
                MappedRowEndsInZero(rows, sOutcome, dOutcome)

\* C22, amended: at the end of a run, every row whose normalised topic Stage
\* A mapped to a non-zero bucket, and which no recommendation's index list
\* references, is in the bucket its topic was mapped to, never in "0".
Thm_C22_MappedRowKeepsTopicBucket ==
    Returned =>
        \A idx \in RowIndexSet :
            (/\ RowKey(RowAt(idx)) \in DOMAIN topicToBucket
             /\ topicToBucket[RowKey(RowAt(idx))] # "0"
             /\ Unreferenced(idx))
            => categorizedRows[idx + 1].BUCKET = topicToBucket[RowKey(RowAt(idx))]

\* a run has returned with a row of a topic mapped to bucket "2" that no
\* recommendation lists
Wit_C22_MappedRowKeepsTopicBucket ==
    /\ Returned
    /\ \E idx \in RowIndexSet :
          /\ RowKey(RowAt(idx)) \in DOMAIN topicToBucket
          /\ topicToBucket[RowKey(RowAt(idx))] = "2"
          /\ Unreferenced(idx)
          /\ categorizedRows[idx + 1].BUCKET = "2"

(***************************************************************************)
(* Properties of the issue categories.                                     *)
(***************************************************************************)
\* the final merged list of bucket b
MergedOf(b) ==
    recommendations[IF b = "1" THEN 1 ELSE IF b = "2" THEN 2 ELSE 3]

\* the index list of the recommendation contains a row of the topic
CoversTopic(rec, key) ==
    \E idx \in RowIndexSet : Lists(rec, idx) /\ RowKey(RowAt(idx)) = key

\* the first of the recommendations with the highest keyword score
TopScoring(recs, key) ==
    CHOOSE p \in 1..Len(recs) :
        /\ \A q \in 1..Len(recs) :
               KeywordScore(recs[q], key) <= KeywordScore(recs[p], key)
        /\ \A q \in 1..(p - 1) :
               KeywordScore(recs[q], key) < KeywordScore(recs[p], key)

\* the topics the first matching tier allows for the assignment a of a
\* topic to bucket b
FirstTierTopics(a, b) ==
    LET key == NormalisedTopic(OrEmpty(a, "topic"))
        recs == MergedOf(b)
        covering == { p \in 1..Len(recs) : CoversTopic(recs[p], key) }
    IN IF OrEmpty(a, "issue_category") # <<>> THEN {a.issue_category}
       ELSE IF covering # {} THEN { recs[p].topic : p \in covering }
       ELSE IF \E p \in 1..Len(recs) : KeywordScore(recs[p], key) > 0
       THEN {recs[TopScoring(recs, key)].topic}
       ELSE {recs[1].topic}

\* C23: the issue category of a cluster topic assigned to a non-zero bucket
\* comes from the first tier that matches, in the order explicit, index
\* overlap, keyword similarity, fallback.  At the end of a run, for every
\* topic Stage A assigned to bucket "1", "2" or "3": the issue_category of
\* the assignment if it has one; otherwise the topic of a merged
\* recommendation of the bucket whose index list contains a row of the
\* topic; otherwise the topic of the recommendation with the best keyword
\* score, if positive; otherwise the topic of the bucket's first merged
\* recommendation.
Orig_C23_FirstMatchingTier ==
    Returned =>
        \A i \in 1..Len(OrEmpty(strategicParsed, "topic_assignments")) :
            LET a == strategicParsed.topic_assignments[i]
                key == NormalisedTopic(OrEmpty(a, "topic"))
            IN (/\ OrEmpty(a, "bucket") \in {"1", "2", "3"}
                /\ key # <<>>
                /\ (OrEmpty(a, "issue_category") # <<>> \/ MergedOf(a.bucket) # <<>>))
               => /\ IssueCategoryOf(topicToIssueCategory, key) # Undefined
                  /\ IssueCategoryOf(topicToIssueCategory, key).value
                         \in FirstTierTopics(a, a.bucket)

\* the tokens of a string: its maximal runs of characters other than white
\* space, "_", "-" and ",", as <<first, last>> positions, those longer
\* than 2 characters
TokenSpans(str) ==
    LET Separates(i) == IsWhiteSpace(str[i]) \/ str[i] \in {"_", "-", ","}
    IN { span \in (1..Len(str)) \X (1..Len(str)) :
           /\ span[2] - span[1] + 1 > 2
           /\ \A i \in span[1]..span[2] : ~Separates(i)
           /\ span[1] = 1 \/ Separates(span[1] - 1)
           /\ span[2] = Len(str) \/ Separates(span[2] + 1) }
Tokens(str) == { SubSeq(str, span[1], span[2]) : span \in TokenSpans(str) }

\* 2 per token of the recommendation topic shared with the cluster topic,
\* and 1 per cluster token that is a substring of the recommendation topic
TokenPoints(recTopic, key) ==
    2 * Cardinality({ span \in TokenSpans(recTopic) :
                        SubSeq(recTopic, span[1], span[2]) \in Tokens(key) })
    + Cardinality({ token \in Tokens(key) : Includes(recTopic, token) })

\* the score as stated: 3 if either topic string contains the other
StatedScore(rec, key) ==
    LET recTopic == toLowerCase(OrEmpty(rec, "topic"))
    IN TokenPoints(recTopic, key)
       + (IF Includes(recTopic, key) \/ Includes(key, recTopic) THEN 3 ELSE 0)

\* the score as computed: 3 if the recommendation topic contains the cluster
\* topic, else 2 if the cluster topic contains the first two words of the
\* recommendation topic
ComputedScore(rec, key) ==
    LET recTopic == toLowerCase(OrEmpty(rec, "topic"))
    IN TokenPoints(recTopic, key)
       + (IF Includes(recTopic, key) THEN 3
          ELSE IF Includes(key, FirstTwoWords(recTopic)) THEN 2 ELSE 0)

\* the keyword tier is reached for assignment i of Stage A: a topic of
\* bucket "1".."3" without an issue category whose bucket has merged
\* recommendations, none of which covers the topic
InKeywordTier(i) ==
    LET a == strategicParsed.topic_assignments[i]
        key == NormalisedTopic(OrEmpty(a, "topic"))
    IN /\ OrEmpty(a, "bucket") \in {"1", "2", "3"}
       /\ key # <<>>
       /\ ~Truthy(IssueCategoryOf(BuildTopicToIssueCategory(
                      strategicParsed.topic_assignments, 1, <<>>), key))
       /\ MergedOf(a.bucket) # <<>>
       /\ \A p \in 1..Len(MergedOf(a.bucket)) :
              ~CoversTopic(MergedOf(a.bucket)[p], key)

\* C24: in the keyword-similarity tier the score of a recommendation is 2
\* per shared token plus 3 if either topic string contains the other plus 1
\* per cluster token that is a substring of the recommendation topic; the
\* topic is given the first recommendation with the highest score, and the
\* bucket's first recommendation when every score is 0.
Orig_C24_KeywordScoreEitherContains ==
    Returned =>
        \A i \in 1..Len(OrEmpty(strategicParsed, "topic_assignments")) :
            InKeywordTier(i) =>
                LET a == strategicParsed.topic_assignments[i]
                    key == NormalisedTopic(a.topic)
                    recs == MergedOf(a.bucket)
                    best == CHOOSE p \in 1..Len(recs) :
                        /\ \A q \in 1..Len(recs) :
                               StatedScore(recs[q], key) <= StatedScore(recs[p], key)
                        /\ \A q \in 1..(p - 1) :
                               StatedScore(recs[q], key) < StatedScore(recs[p], key)
                IN topicToIssueCategory[key] =
                       IF StatedScore(recs[best], key) > 0
                       THEN recs[best].topic ELSE recs[1].topic

\* C24, amended: the score is 2 per shared token, plus 3 if the
\* recommendation topic contains the cluster topic or else 2 if the cluster
\* topic contains the first two space-separated words of the recommendation
\* topic, plus 1 per cluster token that is a substring of the
\* recommendation topic; the topic is given the first recommendation with
\* the highest score, and the bucket's first recommendation when every
\* score is 0.
Thm_C24_KeywordScore ==
    Returned =>
        \A i \in 1..Len(OrEmpty(strategicParsed, "topic_assignments")) :
            InKeywordTier(i) =>
                LET a == strategicParsed.topic_assignments[i]
                    key == NormalisedTopic(a.topic)
                    recs == MergedOf(a.bucket)
                    best == CHOOSE p \in 1..Len(recs) :
                        /\ \A q \in 1..Len(recs) :
                               ComputedScore(recs[q], key) <= ComputedScore(recs[p], key)
                        /\ \A q \in 1..(p - 1) :
                               ComputedScore(recs[q], key) < ComputedScore(recs[p], key)
                IN topicToIssueCategory[key] =
                       IF ComputedScore(recs[best], key) > 0
                       THEN recs[best].topic ELSE recs[1].topic

\* a run has returned in which the topic "billing error" contains the
\* first-listed recommendation topic "billing", the second recommendation
\* shares two tokens with it, and the topic was given the second one
Wit_C24_KeywordScore ==
    /\ Returned
    /\ \E i \in 1..Len(OrEmpty(strategicParsed, "topic_assignments")) :
          /\ InKeywordTier(i)
          /\ LET a == strategicParsed.topic_assignments[i]
                 key == NormalisedTopic(a.topic)
                 recs == MergedOf(a.bucket)
             IN /\ Len(recs) = 2
                /\ Includes(key, toLowerCase(recs[1].topic))
                /\ ~Includes(toLowerCase(recs[1].topic), key)
                /\ ComputedScore(recs[1], key) = 5
                /\ ComputedScore(recs[2], key) = 6
                /\ topicToIssueCategory[key] = recs[2].topic

\* C25: at the end of a run, the issue category of every row that carries
\* one is the topic of some recommendation in the final merged list of the
\* row's own final bucket.
Orig_C25_IssueCategoryOfOwnBucket ==
    Returned =>
        \A r \in 1..Len(categorizedRows) :
            "ISSUE_CATEGORY" \in DOMAIN categorizedRows[r] =>
                /\ categorizedRows[r].BUCKET \in {"1", "2", "3"}
                /\ \E p \in 1..Len(MergedOf(categorizedRows[r].BUCKET)) :
                       FieldOf(MergedOf(categorizedRows[r].BUCKET)[p], "topic")
                           = Defined(categorizedRows[r].ISSUE_CATEGORY)

(***************************************************************************)
(* Properties of the validation of the buckets.                            *)
(***************************************************************************)
\* Stage 5 has stored its results
Validated == pc \notin {"start", "strategic"} /\ log.validationResults # <<>>

\* the result of validateBucketConsistency in the log
BucketResult ==
    log.validationResults[CHOOSE i \in 1..Len(log.validationResults) :
                              log.validationResults[i].type = "Bucket"]

\* the cluster's failure_rate is above 0.15 or its negative_rate above 0.10
ExceedsThreshold(c) ==
    \/ 100 * c.failure_rate.num > 15 * c.failure_rate.den
    \/ 100 * c.negative_rate.num > 10 * c.negative_rate.den

\* the final buckets of the rows of the cluster
BucketsOfCluster(c) ==
    { categorizedRows[c.row_indices[k] + 1].BUCKET : k \in 1..Len(c.row_indices) }

\* C26: validateBucketConsistency returns Warning whenever some cluster
\* whose rows all ended in bucket "0" has a failure_rate above 0.15 or a
\* negative_rate above 0.10, whatever the casing and the surrounding white
\* space of the rows' topics, and Pass when no cluster with a row in bucket
\* "0" exceeds either threshold.
Orig_C26_BucketConsistency ==
    Validated =>
        /\ (\E i \in 1..Len(allClusters) :
                /\ BucketsOfCluster(allClusters[i]) = {"0"}
                /\ ExceedsThreshold(allClusters[i]))
           => BucketResult.status = "Warning"
        /\ (\A i \in 1..Len(allClusters) :
                "0" \in BucketsOfCluster(allClusters[i])
                => ~ExceedsThreshold(allClusters[i]))
           => BucketResult.status = "Pass"

(***************************************************************************)
(* Properties of the order of the stages.                                  *)
(***************************************************************************)
\* the results of Stage 4: the categorised rows, the lists of processBucket
\* and the merged recommendations
StageFourResults ==
    <<categorizedRows, strategicBuckets, detailBuckets, recommendations>>

\* in the log l, stage n (1: Stage A, 2: Stage B) has returned a response,
\* or has failed and left the fallback structure as its parsed response
StageSettledIn(l, n, parsed, fallback) ==
    /\ Len(l.batchSummary) >= n
    /\ l.batchSummary[n].success \/ parsed = fallback

\* a step that writes a row's bucket or a merged list is taken with Stage A
\* settled before it and settles Stage B: no call is pending after it
WritesAfterBothStages ==
    StageFourResults' # StageFourResults =>
        /\ pc = "detail" /\ pc' \notin {"start", "strategic", "detail"}
        /\ StageSettledIn(log, 1, strategicParsed, StrategicDefault)
        /\ strategicParsed' = strategicParsed
        /\ Len(log.batchSummary) = 1
        /\ StageSettledIn(log', 2, detailParsed', DetailDefault)

\* C27: bucket assignment and merging start only after both stages have
\* returned a response or failed into their fallback.  While the call of a
\* stage is pending no row carries a bucket and no list is merged, and the
\* step that writes them finds Stage A settled and settles Stage B.
Thm_C27_AssignAfterBothStages ==
    /\ [](pc \in {"start", "strategic", "detail"} =>
             StageFourResults = <<Idle, Idle, Idle, Idle>>)
    /\ [][WritesAfterBothStages]_vars

\* the rows carry their buckets after Stage A has failed into its fallback
\* and Stage B has returned a response
Wit_C27_AssignAfterBothStages ==
    /\ pc = "finalise"
    /\ Len(categorizedRows) = MaxPipelineRows
    /\ Len(log.batchSummary) = 2
    /\ ~log.batchSummary[1].success /\ strategicParsed = StrategicDefault
    /\ log.batchSummary[2].success
    /\ \E r \in 1..Len(categorizedRows) : categorizedRows[r].BUCKET = "1"

(***************************************************************************)
(* Properties of the rows a run returns.                                   *)
(***************************************************************************)
AddedFields == {"BUCKET", "BUCKET_LABEL", "APPROVAL_STATUS", "ISSUE_CATEGORY"}

\* the categorised row at position r is the input row at position r with
\* its fields unchanged and bucket, label and approval status added, and
\* nothing else but an issue category
SameRowWithAddedFields(r) ==
    /\ \A f \in DOMAIN csvData[r] :
          /\ f \in DOMAIN categorizedRows[r]
          /\ categorizedRows[r][f] = csvData[r][f]
    /\ DOMAIN categorizedRows[r] \ DOMAIN csvData[r] \subseteq AddedFields
    /\ AddedFields \ {"ISSUE_CATEGORY"} \subseteq DOMAIN categorizedRows[r]

\* C28: the pipeline preserves row identity and leaves its input
\* untouched.  The categorised rows of a returned run are as many as the
\* input rows, the one at position i being the input row at position i
\* with every input field unchanged and only bucket, label, approval status
\* and issue category added; no step of a run modifies the input rows.
Thm_C28_RowsPreserved ==
    /\ [](Returned =>
             /\ Len(categorizedRows) = Len(csvData)
             /\ \A r \in 1..Len(csvData) : SameRowWithAddedFields(r))
    /\ [][csvData' = csvData]_vars

\* a run has returned two rows, one moved to bucket "1" by an index list
\* and stamped with an issue category, one left in bucket "0"
Wit_C28_RowsPreserved ==
    /\ Returned
    /\ Len(csvData) = 2
    /\ Len(categorizedRows) = 2
    /\ \E r, q \in 1..2 :
          /\ categorizedRows[r].BUCKET = "1"
          /\ "ISSUE_CATEGORY" \in DOMAIN categorizedRows[r]
          /\ ListingBuckets(detailParsed, r - 1) = {"1"}
          /\ categorizedRows[q].BUCKET = "0"
          /\ "ISSUE_CATEGORY" \notin DOMAIN categorizedRows[q]
          /\ csvData[r].TOPIC # csvData[q].TOPIC

(***************************************************************************)
(* Properties of the counts in the log.                                    *)
(***************************************************************************)
\* the number of categorised rows whose final bucket is b
RowsInBucket(b) ==
    Cardinality({ r \in 1..Len(categorizedRows) : categorizedRows[r].BUCKET = b })

\* C29: conservation of rows.  In the log of every completed run, the
\* counts bucket0Count .. bucket3Count are the numbers of rows whose final
\* bucket is "0" .. "3", their sum is the number of rows, and
\* rowsAccountedFor equals csvAfterFilter, so that dataLossRows is 0.
Orig_C29_RowsConserved ==
    Returned =>
        /\ log.bucket0Count = RowsInBucket("0")
        /\ log.bucket1Count = RowsInBucket("1")
        /\ log.bucket2Count = RowsInBucket("2")
        /\ log.bucket3Count = RowsInBucket("3")
        /\ log.bucket0Count + log.bucket1Count + log.bucket2Count
               + log.bucket3Count = Len(csvData)
        /\ log.rowsAccountedFor = log.csvAfterFilter
        /\ log.dataLossRows = 0

(***************************************************************************)
(* Properties of the order of the index lists.                             *)
(***************************************************************************)
\* the highest of a set of bucket identifiers "1".."3"
HighestBucket(buckets) ==
    IF "3" \in buckets THEN "3" ELSE IF "2" \in buckets THEN "2" ELSE "1"

\* the bucket of the list processed last among those that list row idx, in
\* the order Stage A bucket 1, 2, 3, Stage B bucket 1, 2, 3
LastListingBucket(idx) ==
    IF ListingBuckets(detailParsed, idx) # {}
    THEN HighestBucket(ListingBuckets(detailParsed, idx))
    ELSE HighestBucket(ListingBuckets(strategicParsed, idx))

\* C30: later lists win.  At the end of a run, a row whose index one or
\* several recommendations list has the bucket, and the label, of the list
\* processed last in the order Stage A bucket 1, 2, 3, then Stage B bucket
\* 1, 2, 3: a Stage-B list beats a Stage-A list and, within a stage, the
\* higher bucket wins, whatever the goal-alignment scores are.
Thm_C30_LastListWins ==
    Returned =>
        \A idx \in RowIndexSet :
            ~Unreferenced(idx) =>
                /\ categorizedRows[idx + 1].BUCKET = LastListingBucket(idx)
                /\ categorizedRows[idx + 1].BUCKET_LABEL =
                       BucketLabel(LastListingBucket(idx))

\* a row that a Stage-A list of bucket "3" and Stage-B lists of buckets "1"
\* and "2" name has ended in "2", the recommendation of bucket "1" having
\* the higher goal-alignment score
Wit_C30_LastListWins ==
    /\ Returned
    /\ \E idx \in RowIndexSet :
          /\ ListingBuckets(strategicParsed, idx) = {"3"}
          /\ ListingBuckets(detailParsed, idx) = {"1", "2"}
          /\ detailParsed.bucket1[1].goalAlignmentScore
                 > detailParsed.bucket2[1].goalAlignmentScore
          /\ categorizedRows[idx + 1].BUCKET = "2"

====
